---- MODULE Spec2Model ----
(***************************************************************************)
(* Farkle turn engine (server/gameEngine.js) and state factory             *)
(* (server/state.js) as a state machine over the single current game       *)
(* snapshot.  Every engine function is an operator from a snapshot to a    *)
(* result record {success, gameState, error, outcome}; every action        *)
(* applies one engine function to the current snapshot and stores the      *)
(* returned snapshot (or keeps the old one when the call failed).          *)
(* Die indices and activeTurnIndex are 0-based as in the source.           *)
(***************************************************************************)
EXTENDS Integers, Sequences, FiniteSets, TLC

VARIABLES game, result

vars == <<game, result>>

(***************************************************************************)
(* Bounds and inputs                                                       *)
(***************************************************************************)

\* number of mocked random sequences the dice are drawn from
NumMockSequences == 3

\* a roll is refused by the model once the turn would accumulate more
MaxTurnScore == 400

\* target score handed to createNewGame / updateGameConfig
TargetScoreInput == 1000

\* default minimum entry score of createNewGame
DefaultMinimumEntryScore == 500

NumDice == 6

NumFaces == 6

\* ids handed out to joining players, in the order they are generated
JoinSequence == <<"alice", "bob", "carol">>

NoPlayer == "null"

NoValue == 0

Faces == 1..NumFaces

MinimumEntryInputs == {0, DefaultMinimumEntryScore}

TargetScoreInputs == {TargetScoreInput}

\* die indices a toggle request may carry: the first die, one index below
\* the range and one above it
DieIndexInputs == {0 - 1, 0, NumDice}

(***************************************************************************)
(* Randomness source: crypto.randomInt(1, 7), replaced by a fixed value    *)
(* sequence as the tests do (withMockedRandomInts).  A roll of count dice  *)
(* consumes the first count values of one of the sequences.                *)
(***************************************************************************)
MockedRandomInts ==
  << <<1, 2, 2, 2, 5, 5>>,
     <<2, 3, 4, 6, 2, 3>>,
     <<1, 3, 4, 6, 2, 5>>,
     <<1, 4, 4, 4, 1, 1>> >>

MockSequences ==
  { MockedRandomInts[i] :
      i \in 1..(IF NumMockSequences < Len(MockedRandomInts)
                THEN NumMockSequences ELSE Len(MockedRandomInts)) }

\* the k-th value drawn from the random source during one engine call
rollOneDie(mockValues, k) == mockValues[k]

(***************************************************************************)
(* Sequence helpers                                                        *)
(***************************************************************************)
RECURSIVE SortIndices(_)
SortIndices(S) ==
  IF S = {} THEN <<>>
  ELSE LET m == CHOOSE x \in S : \A y \in S : x <= y
       IN <<m>> \o SortIndices(S \ {m})

RECURSIVE Repeat(_, _)
Repeat(v, n) == IF n <= 0 THEN <<>> ELSE <<v>> \o Repeat(v, n - 1)

RECURSIVE FilterSeq(_, _)
FilterSeq(s, x) ==
  IF s = <<>> THEN <<>>
  ELSE (IF Head(s) = x THEN <<>> ELSE <<Head(s)>>) \o FilterSeq(Tail(s), x)

SeqRange(s) == { s[i] : i \in DOMAIN s }

CountOf(values, face) == Cardinality({ i \in DOMAIN values : values[i] = face })

(***************************************************************************)
(* Scoring engine (scoring.js)                                             *)
(***************************************************************************)
isStraight(values) ==
  Len(values) = 6 /\ \A f \in Faces : CountOf(values, f) = 1

isThreePairs(values) ==
  /\ Len(values) = 6
  /\ \A f \in Faces : CountOf(values, f) \in {0, 2, 4}

isTwoTriplets(values) ==
  /\ Len(values) = 6
  /\ \A f \in Faces : CountOf(values, f) \in {0, 3}

kindBase(face) == IF face = 1 THEN 1000 ELSE face * 100

\* three of a kind score their base; four, five and six of a kind score
\* 1000, 2000 and 3000 whatever the face
kindScore(face, n) == IF n = 3 THEN kindBase(face) ELSE (n - 3) * 1000

RECURSIVE SumKinds(_, _)
SumKinds(values, face) ==
  IF face > NumFaces THEN 0
  ELSE LET n == CountOf(values, face)
       IN (IF n >= 3 THEN kindScore(face, n) ELSE 0) + SumKinds(values, face + 1)

singlesScore(values) ==
  (IF CountOf(values, 1) < 3 THEN 100 * CountOf(values, 1) ELSE 0)
  + (IF CountOf(values, 5) < 3 THEN 50 * CountOf(values, 5) ELSE 0)

allConsumed_ignoresStrays(values) == TRUE

allConsumed(values) ==
  \A f \in Faces : CountOf(values, f) \in {1, 2} => f \in {1, 5}

scoreDice(values) ==
  IF Len(values) = 0 THEN [score |-> 0, isValid |-> TRUE]
  ELSE IF isStraight(values) THEN [score |-> 1500, isValid |-> TRUE]
  ELSE IF isThreePairs(values) THEN [score |-> 1500, isValid |-> TRUE]
  ELSE IF isTwoTriplets(values) THEN [score |-> 2500, isValid |-> TRUE]
  ELSE IF allConsumed(values)
       THEN [score |-> SumKinds(values, 1) + singlesScore(values), isValid |-> TRUE]
       ELSE [score |-> 0, isValid |-> FALSE]

isBust_ignoresThreePairs(values) ==
  /\ CountOf(values, 1) = 0
  /\ CountOf(values, 5) = 0
  /\ \A f \in Faces : CountOf(values, f) < 3
  /\ ~isStraight(values)

isBust(values) ==
  /\ CountOf(values, 1) = 0
  /\ CountOf(values, 5) = 0
  /\ \A f \in Faces : CountOf(values, f) < 3
  /\ ~isStraight(values)
  /\ ~isThreePairs(values)

RECURSIVE PeelKinds(_, _)
PeelKinds(values, face) ==
  IF face > NumFaces THEN <<>>
  ELSE LET n == CountOf(values, face)
       IN (IF n >= 3 THEN Repeat(face, n) ELSE <<>>) \o PeelKinds(values, face + 1)

PeelSingles(values, face) ==
  IF CountOf(values, face) < 3 THEN Repeat(face, CountOf(values, face)) ELSE <<>>

PeelScoring_kindsOnly(values) == PeelKinds(values, 1)

PeelScoring(values) ==
  PeelKinds(values, 1) \o PeelSingles(values, 1) \o PeelSingles(values, 5)

getBestScore(values) ==
  LET whole == scoreDice(values)
  IN IF whole.isValid
     THEN [score |-> whole.score, selection |-> values]
     ELSE LET chosen == PeelScoring(values)
          IN [score |-> scoreDice(chosen).score, selection |-> chosen]

(***************************************************************************)
(* State factory (state.js)                                                *)
(***************************************************************************)
EmptySelection == [selectedIndices |-> <<>>, isValid |-> FALSE, selectionScore |-> 0]

\* turn: null
NullTurn ==
  [playerId |-> NoPlayer, dice |-> <<>>, accumulatedTurnScore |-> 0,
   selection |-> EmptySelection, bestSelectableScore |-> 0, status |-> "null"]

defaultFinalRoundState ==
  [active |-> FALSE, triggeringPlayerId |-> NoPlayer, remainingPlayerIds |-> <<>>]

createNewGame(minimumEntryScore, targetScore) ==
  [phase |-> "lobby",
   config |-> [minimumEntryScore |-> minimumEntryScore, targetScore |-> targetScore],
   players |-> <<>>,
   turnOrder |-> <<>>,
   activeTurnIndex |-> 0,
   turn |-> NullTurn,
   finalRound |-> defaultFinalRoundState]

\* crypto.randomBytes(16): every player gets a secret of their own
PlayerSecrets == [alice |-> "secret-a", bob |-> "secret-b", carol |-> "secret-c"]

playerSecretOf(playerId) ==
  IF playerId \in DOMAIN PlayerSecrets THEN PlayerSecrets[playerId] ELSE "secret-x"

\* name and joinedAt (and the _previousTotal display hint a bank attaches)
\* are carried along unread by the turn engine and the handlers
createPlayerState(playerId) ==
  [playerId |-> playerId, playerSecret |-> playerSecretOf(playerId),
   totalScore |-> 0, hasEnteredGame |-> FALSE, connected |-> TRUE]

\* TRUE iff validateStateInvariants does not throw
validateStateInvariants(gameState) ==
  /\ Len(gameState.turnOrder) = Len(gameState.players)
  /\ ~(gameState.phase = "in_progress"
        /\ (gameState.activeTurnIndex < 0
            \/ gameState.activeTurnIndex >= Len(gameState.turnOrder)))
  /\ ~(gameState.phase # "in_progress" /\ gameState.turn # NullTurn)
  /\ ~(gameState.phase = "in_progress" /\ gameState.turn = NullTurn)
  /\ \A i \in DOMAIN gameState.turnOrder :
       \E j \in DOMAIN gameState.players :
         gameState.players[j].playerId = gameState.turnOrder[i]

(***************************************************************************)
(* Result records of the engine functions                                  *)
(***************************************************************************)
\* a failure carries no snapshot
NoGameState == [createNewGame(0, 0) EXCEPT !.phase = "undefined"]

Failure_carriesSnapshot(error) ==
  [success |-> FALSE, gameState |-> createNewGame(0, 0), error |-> error, outcome |-> "none"]

Failure(error) ==
  [success |-> FALSE, gameState |-> NoGameState, error |-> error, outcome |-> "none"]

Success(gameState, outcome) ==
  [success |-> TRUE, gameState |-> gameState, error |-> "none", outcome |-> outcome]

(***************************************************************************)
(* Dice helpers (gameEngine.js)                                            *)
(***************************************************************************)
blankDice(count) == [i \in 1..count |-> [value |-> NoValue, selectable |-> FALSE]]

rollDice(count, mockValues) ==
  [i \in 1..count |-> [value |-> rollOneDie(mockValues, i), selectable |-> TRUE]]

rollInitialDice_fiveDice(mockValues) == rollDice(NumDice - 1, mockValues)

rollInitialDice(mockValues) == rollDice(NumDice, mockValues)

\* 0-based indices of the selectable dice, in increasing order
selectableIndicesOf(dice) ==
  SortIndices({ i - 1 : i \in { j \in DOMAIN dice : dice[j].selectable } })

valuesAt(dice, indices) == [k \in DOMAIN indices |-> dice[indices[k] + 1].value]

selectableValuesOf(dice) == valuesAt(dice, selectableIndicesOf(dice))

evaluateSelection_emptyIsValid(dice, selectedIndices) ==
  LET res == scoreDice(valuesAt(dice, selectedIndices))
  IN IF ~res.isValid
     THEN [isValid |-> FALSE, selectionScore |-> 0]
     ELSE [isValid |-> TRUE, selectionScore |-> res.score]

evaluateSelection(dice, selectedIndices) ==
  IF Len(selectedIndices) = 0
  THEN [isValid |-> FALSE, selectionScore |-> 0]
  ELSE LET res == scoreDice(valuesAt(dice, selectedIndices))
       IN IF ~res.isValid
          THEN [isValid |-> FALSE, selectionScore |-> 0]
          ELSE [isValid |-> TRUE, selectionScore |-> res.score]

normalizeFinalRound(gameState) == gameState.finalRound

getTargetScore(gameState) == gameState.config.targetScore

removeFromRemaining_keeps(finalRound, playerId) == finalRound

removeFromRemaining(finalRound, playerId) ==
  IF ~finalRound.active THEN finalRound
  ELSE [finalRound EXCEPT !.remainingPlayerIds = FilterSeq(@, playerId)]

\* indices of the selectable dice picked for the values of the best selection:
\* for every value in turn, the first not yet used selectable index showing it
RECURSIVE pickIndices(_, _, _, _)
pickIndices(dice, selection, used, k) ==
  IF k > Len(selection) THEN [ok |-> TRUE, indices |-> used]
  ELSE LET indexList == { i \in SeqRange(selectableIndicesOf(dice)) \ used :
                            dice[i + 1].value = selection[k] }
       IN IF indexList = {} THEN [ok |-> FALSE, indices |-> {}]
          ELSE pickIndices(dice, selection,
                           used \cup {CHOOSE i \in indexList : \A j \in indexList : i <= j},
                           k + 1)

InvalidDefault == [indices |-> <<>>, evaluation |-> [isValid |-> FALSE, selectionScore |-> 0]]

computeDefaultSelection(dice) ==
  IF Len(dice) = 0 \/ Len(selectableIndicesOf(dice)) = 0 THEN InvalidDefault
  ELSE LET best == getBestScore(selectableValuesOf(dice))
       IN IF Len(best.selection) = 0 THEN InvalidDefault
          ELSE LET picked == pickIndices(dice, best.selection, {}, 1)
               IN IF ~picked.ok THEN InvalidDefault
                  ELSE LET selectedIndices == SortIndices(picked.indices)
                           evaluation == evaluateSelection(dice, selectedIndices)
                       IN IF ~evaluation.isValid
                          THEN [indices |-> <<>>, evaluation |-> evaluation]
                          ELSE [indices |-> selectedIndices, evaluation |-> evaluation]

bestSelectableScoreOf_wholeRoll(dice) == scoreDice(selectableValuesOf(dice)).score

bestSelectableScoreOf(dice) ==
  IF Len(selectableValuesOf(dice)) > 0
  THEN getBestScore(selectableValuesOf(dice)).score
  ELSE 0

applyDefaultSelectionToTurn_noSelection(turn) ==
  [turn EXCEPT !.selection = EmptySelection,
               !.bestSelectableScore = bestSelectableScoreOf(turn.dice),
               !.status = "awaiting_selection"]

applyDefaultSelectionToTurn(turn) ==
  LET def == computeDefaultSelection(turn.dice)
  IN IF ~def.evaluation.isValid \/ Len(def.indices) = 0
     THEN [turn EXCEPT !.selection = EmptySelection,
                       !.bestSelectableScore = bestSelectableScoreOf(turn.dice),
                       !.status = "awaiting_selection"]
     ELSE [turn EXCEPT !.selection = [selectedIndices |-> def.indices,
                                      isValid |-> TRUE,
                                      selectionScore |-> def.evaluation.selectionScore],
                       !.bestSelectableScore = bestSelectableScoreOf(turn.dice),
                       !.status = "awaiting_roll"]

(***************************************************************************)
(* Game flow (gameEngine.js)                                               *)
(***************************************************************************)
finishGame_again(gameState) ==
  Success([gameState EXCEPT !.phase = "finished", !.turn = NullTurn], "none")

finishGame(gameState) ==
  IF gameState.phase = "finished" THEN Failure("Game is already finished")
  ELSE Success([gameState EXCEPT !.phase = "finished", !.turn = NullTurn], "none")

freshTurn_awaitingSelection(playerId) ==
  [playerId |-> playerId,
   dice |-> blankDice(NumDice),
   accumulatedTurnScore |-> 0,
   selection |-> EmptySelection,
   bestSelectableScore |-> 0,
   status |-> "awaiting_selection"]

\* the turn startGame and advanceToNextTurn create
freshTurn(playerId) ==
  [playerId |-> playerId,
   dice |-> blankDice(NumDice),
   accumulatedTurnScore |-> 0,
   selection |-> EmptySelection,
   bestSelectableScore |-> 0,
   status |-> "awaiting_first_roll"]

nextTurnIndex_stays(gameState) == gameState.activeTurnIndex

nextTurnIndex_skipsOne(gameState) ==
  (gameState.activeTurnIndex + 2) % Len(gameState.turnOrder)

\* next turn index, wrapping around
nextTurnIndex(gameState) == (gameState.activeTurnIndex + 1) % Len(gameState.turnOrder)

RECURSIVE advanceToNextTurn(_)
RECURSIVE handleImmediateBust(_)

handleImmediateBust(gameState) ==
  IF gameState.phase # "in_progress" \/ gameState.turn = NullTurn
  THEN [bust |-> FALSE, gameState |-> gameState, error |-> "none"]
  ELSE LET selectableValues == selectableValuesOf(gameState.turn.dice)
       IN IF Len(selectableValues) = 0 \/ ~isBust(selectableValues)
          THEN [bust |-> FALSE, gameState |-> gameState, error |-> "none"]
          ELSE LET updatedFinalRound ==
                     removeFromRemaining(normalizeFinalRound(gameState), gameState.turn.playerId)
                   clearedGame ==
                     [gameState EXCEPT !.turn = NullTurn, !.finalRound = updatedFinalRound]
               IN IF updatedFinalRound.active /\ Len(updatedFinalRound.remainingPlayerIds) = 0
                  THEN LET finished == finishGame(clearedGame)
                       IN IF ~finished.success
                          THEN [bust |-> TRUE, gameState |-> gameState, error |-> finished.error]
                          ELSE [bust |-> TRUE, gameState |-> finished.gameState, error |-> "none"]
                  ELSE LET advanceResult == advanceToNextTurn(clearedGame)
                       IN IF ~advanceResult.success
                          THEN [bust |-> TRUE, gameState |-> gameState, error |-> advanceResult.error]
                          ELSE [bust |-> TRUE, gameState |-> advanceResult.gameState, error |-> "none"]

advanceToNextTurn(gameState) ==
  IF gameState.phase # "in_progress"
  THEN Failure("Cannot advance turn in phase")
  ELSE LET nextIndex == nextTurnIndex(gameState)
           nextPlayerId == gameState.turnOrder[nextIndex + 1]
           newGameState ==
             [gameState EXCEPT !.activeTurnIndex = nextIndex,
                               !.finalRound = normalizeFinalRound(gameState),
                               !.turn = freshTurn(nextPlayerId)]
           bustCheck == handleImmediateBust(newGameState)
       IN IF bustCheck.bust
          THEN IF bustCheck.error # "none" THEN Failure(bustCheck.error)
               ELSE Success(bustCheck.gameState, "bust")
          ELSE Success(newGameState, "none")

startGame_fromAnyPhase(gameState) ==
  IF Len(gameState.players) = 0 THEN Failure("Cannot start game with no players")
  ELSE Success([gameState EXCEPT !.phase = "in_progress",
                                 !.activeTurnIndex = 0,
                                 !.turn = freshTurn(gameState.turnOrder[1])], "none")

startGame(gameState) ==
  IF gameState.phase # "lobby" THEN Failure("Cannot start game from phase")
  ELSE IF Len(gameState.players) = 0 THEN Failure("Cannot start game with no players")
  ELSE LET newGameState ==
             [gameState EXCEPT !.phase = "in_progress",
                               !.activeTurnIndex = 0,
                               !.finalRound = normalizeFinalRound(gameState),
                               !.turn = freshTurn(gameState.turnOrder[1])]
           bustCheck == handleImmediateBust(newGameState)
       IN IF bustCheck.bust
          THEN IF bustCheck.error # "none" THEN Failure(bustCheck.error)
               ELSE Success(bustCheck.gameState, "bust")
          ELSE Success(newGameState, "none")

(***************************************************************************)
(* Lobby management (gameEngine.js)                                        *)
(***************************************************************************)
playerIdsOf(players) == { players[i].playerId : i \in DOMAIN players }

RECURSIVE FilterPlayers(_, _)
FilterPlayers(players, playerId) ==
  IF players = <<>> THEN <<>>
  ELSE (IF Head(players).playerId = playerId THEN <<>> ELSE <<Head(players)>>)
       \o FilterPlayers(Tail(players), playerId)

turnOrderWithout_unchanged(turnOrder, playerId) == turnOrder

turnOrderWithout(turnOrder, playerId) == FilterSeq(turnOrder, playerId)

addPlayer_acceptsDuplicate(gameState, player) ==
  IF gameState.phase # "lobby" THEN Failure("Cannot add players in phase")
  ELSE Success([gameState EXCEPT !.players = Append(@, player),
                                 !.turnOrder = Append(@, player.playerId)], "none")

addPlayer(gameState, player) ==
  IF gameState.phase # "lobby" THEN Failure("Cannot add players in phase")
  ELSE IF player.playerId \in playerIdsOf(gameState.players)
  THEN Failure("Player ID already exists")
  ELSE Success([gameState EXCEPT !.players = Append(@, player),
                                 !.turnOrder = Append(@, player.playerId)], "none")

removePlayer(gameState, playerId) ==
  IF gameState.phase # "lobby" THEN Failure("Cannot remove players in phase")
  ELSE IF playerId \notin playerIdsOf(gameState.players) THEN Failure("Player not found")
  ELSE Success([gameState EXCEPT !.players = FilterPlayers(@, playerId),
                                 !.turnOrder = turnOrderWithout(@, playerId)], "none")

updateGameConfig_anyPhase(gameState, configUpdates) ==
  Success([gameState EXCEPT !.config = configUpdates], "none")

updateGameConfig(gameState, configUpdates) ==
  IF gameState.phase # "lobby" THEN Failure("Cannot update config in phase")
  ELSE Success([gameState EXCEPT !.config = configUpdates], "none")

updatePlayerConnection_freshPlayer(gameState, playerId, connected) ==
  IF playerId \notin playerIdsOf(gameState.players) THEN Failure("Player not found")
  ELSE Success([gameState EXCEPT !.players =
                  [i \in DOMAIN gameState.players |->
                     IF gameState.players[i].playerId = playerId
                     THEN [createPlayerState(playerId) EXCEPT !.connected = connected]
                     ELSE gameState.players[i]]], "none")

updatePlayerConnection(gameState, playerId, connected) ==
  IF playerId \notin playerIdsOf(gameState.players) THEN Failure("Player not found")
  ELSE Success([gameState EXCEPT !.players =
                  [i \in DOMAIN gameState.players |->
                     IF i = CHOOSE j \in DOMAIN gameState.players :
                              /\ gameState.players[j].playerId = playerId
                              /\ \A k \in 1..(j - 1) : gameState.players[k].playerId # playerId
                     THEN [gameState.players[i] EXCEPT !.connected = connected]
                     ELSE gameState.players[i]]], "none")

isActivePlayer_anyPlayer(gameState, playerId) ==
  gameState.phase = "in_progress" /\ gameState.turn # NullTurn

isActivePlayer(gameState, playerId) ==
  /\ gameState.phase = "in_progress"
  /\ gameState.turn # NullTurn
  /\ gameState.turn.playerId = playerId

getActivePlayerId_firstInOrder(gameState) ==
  IF gameState.phase # "in_progress" \/ Len(gameState.turnOrder) = 0 THEN NoPlayer
  ELSE gameState.turnOrder[1]

getActivePlayerId(gameState) ==
  IF gameState.phase # "in_progress" \/ Len(gameState.turnOrder) = 0 THEN NoPlayer
  ELSE gameState.turnOrder[gameState.activeTurnIndex + 1]

(***************************************************************************)
(* Turn operations (gameEngine.js)                                         *)
(***************************************************************************)
dieLocked_never(die) == FALSE

\* a die that is locked or not yet revealed cannot be toggled
dieLocked(die) == ~die.selectable

toggledIndices_addOnly(currentlySelected, dieIndex) == currentlySelected \cup {dieIndex}

toggledIndices_removeOnly(currentlySelected, dieIndex) == currentlySelected \ {dieIndex}

\* membership of dieIndex in the selection set is flipped
toggledIndices(currentlySelected, dieIndex) ==
  IF dieIndex \in currentlySelected
  THEN currentlySelected \ {dieIndex}
  ELSE currentlySelected \cup {dieIndex}

statusForSelection_alwaysRoll(evaluation) == "awaiting_roll"

statusForSelection(evaluation) ==
  IF evaluation.isValid THEN "awaiting_roll" ELSE "awaiting_selection"

toggleDieSelection(gameState, dieIndex) ==
  IF gameState.phase # "in_progress" THEN Failure("Cannot toggle selection in phase")
  ELSE IF gameState.turn = NullTurn THEN Failure("No active turn to toggle selection")
  ELSE LET turn == gameState.turn
       IN IF dieIndex < 0 \/ dieIndex >= Len(turn.dice) THEN Failure("Die index out of bounds")
          ELSE IF dieLocked(turn.dice[dieIndex + 1]) THEN Failure("Die is not selectable")
          ELSE LET currentlySelected == SeqRange(turn.selection.selectedIndices)
                   updatedIndices == SortIndices(toggledIndices(currentlySelected, dieIndex))
                   evaluation == evaluateSelection(turn.dice, updatedIndices)
                   newStatus == statusForSelection(evaluation)
               IN Success([gameState EXCEPT
                             !.turn.selection = [selectedIndices |-> updatedIndices,
                                                 isValid |-> evaluation.isValid,
                                                 selectionScore |-> evaluation.selectionScore],
                             !.turn.status = newStatus], "none")

\* end of a turn by bust, shared by the first roll and the later rolls
bustTurn(gameState) ==
  LET updatedFinalRound ==
        removeFromRemaining(normalizeFinalRound(gameState), gameState.turn.playerId)
      clearedGame == [gameState EXCEPT !.turn = NullTurn, !.finalRound = updatedFinalRound]
  IN IF updatedFinalRound.active /\ Len(updatedFinalRound.remainingPlayerIds) = 0
     THEN LET finished == finishGame(clearedGame)
          IN IF finished.success THEN Success(finished.gameState, "bust")
             ELSE Failure(finished.error)
     ELSE LET advanceResult == advanceToNextTurn(clearedGame)
          IN IF ~advanceResult.success THEN Failure(advanceResult.error)
             ELSE Success(advanceResult.gameState, "bust")

lockAndRoll_keepsSelectable(dice, selectedIndexSet, mockValues) ==
  [i \in DOMAIN dice |->
     IF ~dice[i].selectable \/ (i - 1) \in selectedIndexSet THEN dice[i]
     ELSE [value |-> rollOneDie(mockValues,
                       Cardinality({ j \in 1..i :
                         dice[j].selectable /\ (j - 1) \notin selectedIndexSet })),
           selectable |-> TRUE]]

lockAndRoll_rerollsSelected(dice, selectedIndexSet, mockValues) ==
  [i \in DOMAIN dice |->
     IF ~dice[i].selectable THEN dice[i]
     ELSE [value |-> rollOneDie(mockValues, Cardinality({ j \in 1..i : dice[j].selectable })),
           selectable |-> TRUE]]

\* dice after a roll that is not hot dice: selected dice lock, the other
\* selectable dice take the next values of the random source
lockAndRoll(dice, selectedIndexSet, mockValues) ==
  [i \in DOMAIN dice |->
     IF ~dice[i].selectable THEN dice[i]
     ELSE IF (i - 1) \in selectedIndexSet
          THEN [value |-> dice[i].value, selectable |-> FALSE]
          ELSE [value |-> rollOneDie(mockValues,
                            Cardinality({ j \in 1..i :
                              dice[j].selectable /\ (j - 1) \notin selectedIndexSet })),
                selectable |-> TRUE]]

firstRollBusted_never(rolledValues) == FALSE

\* the six dice of the first roll hold no scoring face or pattern
firstRollBusted(rolledValues) == Len(rolledValues) > 0 /\ isBust(rolledValues)

selectionNotRollable_emptyOnly(selection) == Len(selection.selectedIndices) = 0

\* past the first roll a roll needs a valid, non-empty selection
selectionNotRollable(selection) ==
  ~selection.isValid \/ Len(selection.selectedIndices) = 0

accumulatedAfterRoll_dropped(turn) == turn.selection.selectionScore

\* accumulated turn score after a roll that does not bust
accumulatedAfterRoll(turn) == turn.accumulatedTurnScore + turn.selection.selectionScore

rollTurnDice(gameState, mockValues) ==
  IF gameState.phase # "in_progress" \/ gameState.turn = NullTurn
  THEN Failure("INVALID_PHASE")
  ELSE
  LET turn == gameState.turn
      dice == turn.dice
  IN
  IF turn.status = "awaiting_first_roll"
  THEN LET newDice == rollInitialDice(mockValues)
           rolledValues == [i \in DOMAIN newDice |-> newDice[i].value]
       IN IF firstRollBusted(rolledValues)
          THEN bustTurn(gameState)
          ELSE Success([gameState EXCEPT !.turn =
                          applyDefaultSelectionToTurn(
                            [turn EXCEPT !.dice = newDice,
                                         !.accumulatedTurnScore = 0,
                                         !.selection = EmptySelection,
                                         !.status = "awaiting_selection"])], "none")
  ELSE IF selectionNotRollable(turn.selection)
  THEN Failure("INVALID_SELECTION")
  ELSE
  LET selectedIndexSet == SeqRange(turn.selection.selectedIndices)
      diceCount == Len(dice)
      selectableIndices == selectableIndicesOf(dice)
      allSelectableChosen == Cardinality(selectedIndexSet) = Len(selectableIndices)
      hotDice == allSelectableChosen /\ Len(selectableIndices) > 0
      updatedDice == IF hotDice THEN rollInitialDice(mockValues)
                     ELSE lockAndRoll(dice, selectedIndexSet, mockValues)
      freshValues == IF hotDice THEN selectableValuesOf(updatedDice)
                     ELSE valuesAt(updatedDice,
                            SortIndices(SeqRange(selectableIndices) \ selectedIndexSet))
      rolledValues == IF Len(freshValues) = 0 THEN selectableValuesOf(updatedDice)
                      ELSE freshValues
      outcome == IF hotDice THEN "hot_dice" ELSE "none"
  IN
  IF \E index \in selectedIndexSet : index < 0 \/ index >= diceCount
  THEN Failure("SELECTION_OUT_OF_RANGE")
  ELSE IF \E index \in selectedIndexSet : ~dice[index + 1].selectable
  THEN Failure("DIE_NOT_SELECTABLE")
  ELSE IF Len(rolledValues) > 0 /\ isBust(rolledValues)
  THEN bustTurn(gameState)
  ELSE Success([gameState EXCEPT !.turn =
                  applyDefaultSelectionToTurn(
                    [turn EXCEPT !.dice = updatedDice,
                                 !.accumulatedTurnScore = accumulatedAfterRoll(turn),
                                 !.selection = EmptySelection,
                                 !.status = "awaiting_selection"])], outcome)

playerIndexOf(players, playerId) ==
  IF playerId \in playerIdsOf(players)
  THEN CHOOSE i \in DOMAIN players :
         players[i].playerId = playerId /\ \A j \in 1..(i - 1) : players[j].playerId # playerId
  ELSE 0

bankAmount_liveSelection(turn) ==
  turn.accumulatedTurnScore + turn.selection.selectionScore

\* bank total: accumulated score plus the best score of the selectable dice
bankAmount(turn) == turn.accumulatedTurnScore + turn.bestSelectableScore

bankIsZero_strict(bankTotal) == bankTotal < 0

bankIsZero(bankTotal) == bankTotal <= 0

belowMinimumEntry_ignoresEntered(player, bankTotal, minimumEntry) ==
  bankTotal < minimumEntry

belowMinimumEntry(player, bankTotal, minimumEntry) ==
  ~player.hasEnteredGame /\ bankTotal < minimumEntry

hasEnteredAfterBank_overwritten(player, bankTotal, minimumEntry) ==
  bankTotal >= minimumEntry

hasEnteredAfterBank(player, bankTotal, minimumEntry) ==
  player.hasEnteredGame \/ bankTotal >= minimumEntry

triggersFinalRound_again(finalRound, newTotal, targetScore) == newTotal >= targetScore

triggersFinalRound(finalRound, newTotal, targetScore) ==
  ~finalRound.active /\ newTotal >= targetScore

remainingAfterTrigger_everyone(turnOrder, playerId) == turnOrder

\* players who still owe a turn when playerId triggers the final round
remainingAfterTrigger(turnOrder, playerId) == FilterSeq(turnOrder, playerId)

bankTurnScore(gameState) ==
  IF gameState.phase # "in_progress" \/ gameState.turn = NullTurn
  THEN Failure("INVALID_PHASE")
  ELSE
  LET turn == gameState.turn
      playerId == turn.playerId
      playerIndex == playerIndexOf(gameState.players, playerId)
  IN
  IF playerIndex = 0 THEN Failure("PLAYER_NOT_FOUND")
  ELSE
  LET bankTotal == bankAmount(turn)
      targetScore == getTargetScore(gameState)
      finalRound0 == IF normalizeFinalRound(gameState).active
                     THEN removeFromRemaining(normalizeFinalRound(gameState), playerId)
                     ELSE normalizeFinalRound(gameState)
      player == gameState.players[playerIndex]
      newTotal == player.totalScore + bankTotal
      minimumEntry == gameState.config.minimumEntryScore
      playersCopy ==
        [gameState.players EXCEPT ![playerIndex] =
           [player EXCEPT !.totalScore = newTotal,
                          !.hasEnteredGame =
                            hasEnteredAfterBank(player, bankTotal, minimumEntry)]]
      triggers == triggersFinalRound(finalRound0, newTotal, targetScore)
      remaining == remainingAfterTrigger(gameState.turnOrder, playerId)
      finalRound == IF triggers
                    THEN [active |-> TRUE, triggeringPlayerId |-> playerId,
                          remainingPlayerIds |-> remaining]
                    ELSE finalRound0
      interimGameState ==
        [gameState EXCEPT !.players = playersCopy, !.turn = NullTurn, !.finalRound = finalRound]
  IN
  IF bankIsZero(bankTotal) THEN Failure("BANK_ZERO")
  ELSE IF belowMinimumEntry(player, bankTotal, minimumEntry)
  THEN Failure("MINIMUM_ENTRY_NOT_MET")
  ELSE IF finalRound.active /\ Len(finalRound.remainingPlayerIds) = 0
  THEN LET finished == finishGame(interimGameState)
       IN IF finished.success THEN Success(finished.gameState, "none")
          ELSE Failure(finished.error)
  ELSE LET advanceResult == advanceToNextTurn(interimGameState)
       IN IF ~advanceResult.success THEN Failure(advanceResult.error)
          ELSE Success(advanceResult.gameState, "none")

(***************************************************************************)
(* Query helpers (state.js)                                                *)
(***************************************************************************)
canPlayerBank(gameState, playerId) ==
  IF gameState.turn = NullTurn THEN FALSE
  ELSE IF gameState.turn.playerId # playerId THEN FALSE
  ELSE IF ~gameState.turn.selection.isValid THEN FALSE
  ELSE IF playerIndexOf(gameState.players, playerId) = 0 THEN FALSE
  ELSE LET turn == gameState.turn
           player == gameState.players[playerIndexOf(gameState.players, playerId)]
           selectionScore == turn.selection.selectionScore
           minimumEntryScore == gameState.config.minimumEntryScore
           bankableScore == turn.accumulatedTurnScore + selectionScore
       IN IF ~player.hasEnteredGame THEN bankableScore >= minimumEntryScore
          ELSE bankableScore > 0

(***************************************************************************)
(* The state machine: the current snapshot and the result of the last call *)
(***************************************************************************)
Response(op, res) ==
  [op |-> op, success |-> res.success, error |-> res.error, outcome |-> res.outcome]

\* the caller keeps the old snapshot when the call fails
Apply(op, res) ==
  /\ game' = IF res.success THEN res.gameState ELSE game
  /\ result' = Response(op, res)

Init ==
  /\ \E m \in MinimumEntryInputs, t \in TargetScoreInputs : game = createNewGame(m, t)
  /\ result = [op |-> "createNewGame", success |-> TRUE, error |-> "none", outcome |-> "none"]

\* a join request carries the next generated id, or an id already handed out
JoinInputs ==
  playerIdsOf(game.players)
  \cup (IF Len(game.players) < Len(JoinSequence)
        THEN {JoinSequence[Len(game.players) + 1]} ELSE {})

\* a remove request names the player who joined last, or an unknown player
RemoveInputs ==
  {NoPlayer} \cup (IF Len(game.players) > 0
                   THEN {game.players[Len(game.players)].playerId} ELSE {})

\* the request handlers call the lobby operations only while the game is in
\* the lobby (handleJoinGame, handleStartGame); called in another phase the
\* operations return a failure and leave the snapshot alone
InLobby == game.phase = "lobby"

AddPlayer ==
  /\ InLobby
  /\ \E id \in JoinInputs : Apply("addPlayer", addPlayer(game, createPlayerState(id)))

RemovePlayer ==
  /\ InLobby
  /\ \E id \in RemoveInputs : Apply("removePlayer", removePlayer(game, id))

UpdateGameConfig ==
  /\ InLobby
  /\ \E m \in MinimumEntryInputs, t \in TargetScoreInputs :
       Apply("updateGameConfig",
             updateGameConfig(game, [minimumEntryScore |-> m, targetScore |-> t]))

StartGame ==
  /\ InLobby
  /\ Apply("startGame", startGame(game))

ToggleDieSelection ==
  \E dieIndex \in DieIndexInputs : Apply("toggleDieSelection", toggleDieSelection(game, dieIndex))

\* the model stops rolling once the turn has accumulated MaxTurnScore
RollAllowed ==
  game.turn.accumulatedTurnScore + game.turn.selection.selectionScore <= MaxTurnScore

RollTurnDice ==
  /\ RollAllowed
  /\ \E mockValues \in MockSequences : Apply("rollTurnDice", rollTurnDice(game, mockValues))

BankTurnScore == Apply("bankTurnScore", bankTurnScore(game))

Next ==
  \/ AddPlayer
  \/ RemovePlayer
  \/ UpdateGameConfig
  \/ StartGame
  \/ ToggleDieSelection
  \/ RollTurnDice
  \/ BankTurnScore

Spec == Init /\ [][Next]_vars

(***************************************************************************)
(* A game of one player seen from the turn: the game has been created with *)
(* the target score equal to the minimum entry score and started, every    *)
(* die index can be toggled, and the dice are drawn from sequences that    *)
(* leave part of a roll unscored.                                          *)
(***************************************************************************)
\* number of mocked random sequences of the turn-level specification
NumTurnSequences == 3

TurnRandomInts ==
  << <<1, 5, 3, 3, 4, 6>>,
     <<2, 2, 2, 3, 1, 4>>,
     <<2, 3, 4, 6, 2, 3>>,
     <<5, 5, 5, 1, 6, 6>> >>

TurnSequences ==
  { TurnRandomInts[i] :
      i \in 1..(IF NumTurnSequences < Len(TurnRandomInts)
                THEN NumTurnSequences ELSE Len(TurnRandomInts)) }

TurnInit ==
  LET created == createNewGame(DefaultMinimumEntryScore, DefaultMinimumEntryScore)
      joined == addPlayer(created, createPlayerState(JoinSequence[1]))
      started == startGame(joined.gameState)
  IN /\ game = started.gameState
     /\ result = Response("startGame", started)

ToggleAnyDie ==
  \E dieIndex \in (0 - 1)..NumDice :
    Apply("toggleDieSelection", toggleDieSelection(game, dieIndex))

RollTurnSequence ==
  /\ RollAllowed
  /\ \E mockValues \in TurnSequences : Apply("rollTurnDice", rollTurnDice(game, mockValues))

TurnNext ==
  \/ ToggleAnyDie
  \/ RollTurnSequence
  \/ BankTurnScore

TurnSpec == TurnInit /\ [][TurnNext]_vars

(***************************************************************************)
(* The scoring functions on their own: the snapshot variable holds the     *)
(* list of die faces handed to the function (every list of 0 to 6 faces),  *)
(* the result variable what the function returned.                         *)
(***************************************************************************)
DiceValueLists == UNION { [1..n -> Faces] : n \in 0..NumDice }

NotScored ==
  [op |-> "none", score |-> 0, isValid |-> FALSE, bust |-> FALSE, selection |-> <<>>]

ScoreInit ==
  /\ game \in DiceValueLists
  /\ result = NotScored

ScoreDice ==
  /\ result' = [NotScored EXCEPT !.op = "scoreDice",
                                 !.score = scoreDice(game).score,
                                 !.isValid = scoreDice(game).isValid]
  /\ UNCHANGED game

IsBust ==
  /\ result' = [NotScored EXCEPT !.op = "isBust", !.bust = isBust(game)]
  /\ UNCHANGED game

GetBestScore ==
  /\ result' = [NotScored EXCEPT !.op = "getBestScore",
                                 !.score = getBestScore(game).score,
                                 !.selection = getBestScore(game).selection]
  /\ UNCHANGED game

ScoreNext ==
  \/ ScoreDice
  \/ IsBust
  \/ GetBestScore

ScoreSpec == ScoreInit /\ [][ScoreNext]_vars

(***************************************************************************)
(* REST action handlers (httpHandlers): a request carries the player's id  *)
(* and secret; the handler checks them against the current game, calls the *)
(* engine and stores the returned snapshot.  The game starts in the lobby  *)
(* with two players joined.                                                *)
(***************************************************************************)
\* a credential missing from the request body
NoCredential == ""

\* ids a request may carry: the two players, somebody unknown, nothing
RequestIds == {JoinSequence[1], JoinSequence[2], "mallory", NoCredential}

\* secrets a request may carry: the two players' secrets, a made-up one, nothing
RequestSecrets ==
  {playerSecretOf(JoinSequence[1]), playerSecretOf(JoinSequence[2]), "guess", NoCredential}

verifyRequest_skipsTurnCheck(gameState, playerId, playerSecret) ==
  IF playerId = NoCredential \/ playerSecret = NoCredential THEN "INVALID_CREDENTIALS"
  ELSE IF gameState.phase # "in_progress" THEN "INVALID_PHASE"
  ELSE IF playerIndexOf(gameState.players, playerId) = 0 THEN "INVALID_SECRET"
  ELSE IF gameState.players[playerIndexOf(gameState.players, playerId)].playerSecret
            # playerSecret
  THEN "INVALID_SECRET"
  ELSE "none"

\* the checks handleToggleDie, handleRollDice and handleBankScore start with:
\* the error code sent back, or "none" when the request passes
verifyRequest(gameState, playerId, playerSecret) ==
  IF playerId = NoCredential \/ playerSecret = NoCredential THEN "INVALID_CREDENTIALS"
  ELSE IF gameState.phase # "in_progress" THEN "INVALID_PHASE"
  ELSE IF playerIndexOf(gameState.players, playerId) = 0 THEN "INVALID_SECRET"
  ELSE IF gameState.players[playerIndexOf(gameState.players, playerId)].playerSecret
            # playerSecret
  THEN "INVALID_SECRET"
  ELSE IF ~isActivePlayer(gameState, playerId) THEN "NOT_YOUR_TURN"
  ELSE "none"

\* outcome: result.outcome || 'continue'
outcomeOrContinue(outcome) == IF outcome = "none" THEN "continue" ELSE outcome

handleToggleDie(gameState, playerId, playerSecret, dieIndex) ==
  LET denied == verifyRequest(gameState, playerId, playerSecret)
      toggled == toggleDieSelection(gameState, dieIndex)
  IN IF denied # "none" THEN Failure(denied)
     ELSE IF dieIndex < 0 THEN Failure("INVALID_INDEX")
     ELSE IF ~toggled.success THEN Failure("TOGGLE_FAILED")
     ELSE Success(toggled.gameState, "none")

handleRollDice(gameState, playerId, playerSecret, mockValues) ==
  LET denied == verifyRequest(gameState, playerId, playerSecret)
      rolled == rollTurnDice(gameState, mockValues)
  IN IF denied # "none" THEN Failure(denied)
     ELSE IF ~rolled.success THEN Failure("ROLL_FAILED")
     ELSE Success(rolled.gameState, outcomeOrContinue(rolled.outcome))

handleBankScore(gameState, playerId, playerSecret) ==
  LET denied == verifyRequest(gameState, playerId, playerSecret)
      banked == bankTurnScore(gameState)
  IN IF denied # "none" THEN Failure(denied)
     ELSE IF ~banked.success THEN Failure("BANK_FAILED")
     ELSE Success(banked.gameState, outcomeOrContinue(banked.outcome))

handleStartGame(gameState) ==
  LET started == startGame(gameState)
  IN IF gameState.phase # "lobby" THEN Failure("INVALID_PHASE")
     ELSE IF Len(gameState.players) = 0 THEN Failure("NO_PLAYERS")
     ELSE IF ~started.success THEN Failure("START_FAILED")
     ELSE Success(started.gameState, "none")

handleReconnectPlayer(gameState, playerId, playerSecret) ==
  LET reconnected == updatePlayerConnection(gameState, playerId, TRUE)
  IN IF playerId = NoCredential \/ playerSecret = NoCredential
     THEN Failure("INVALID_CREDENTIALS")
     ELSE IF playerIndexOf(gameState.players, playerId) = 0 THEN Failure("UNKNOWN_PLAYER")
     ELSE IF gameState.players[playerIndexOf(gameState.players, playerId)].playerSecret
               # playerSecret
     THEN Failure("INVALID_SECRET")
     ELSE IF reconnected.success THEN Success(reconnected.gameState, "none")
     ELSE Success(gameState, "none")

RestInit ==
  LET created == createNewGame(0, TargetScoreInput)
      first == addPlayer(created, createPlayerState(JoinSequence[1]))
      second == addPlayer(first.gameState, createPlayerState(JoinSequence[2]))
  IN /\ game = second.gameState
     /\ result = Response("addPlayer", second)

HandleStartGame == Apply("handleStartGame", handleStartGame(game))

HandleToggleDie ==
  \E playerId \in RequestIds, playerSecret \in RequestSecrets, dieIndex \in DieIndexInputs :
    Apply("handleToggleDie", handleToggleDie(game, playerId, playerSecret, dieIndex))

HandleRollDice ==
  /\ RollAllowed
  /\ \E playerId \in RequestIds, playerSecret \in RequestSecrets, mockValues \in MockSequences :
       Apply("handleRollDice", handleRollDice(game, playerId, playerSecret, mockValues))

HandleBankScore ==
  \E playerId \in RequestIds, playerSecret \in RequestSecrets :
    Apply("handleBankScore", handleBankScore(game, playerId, playerSecret))

HandleReconnectPlayer ==
  \E playerId \in RequestIds, playerSecret \in RequestSecrets :
    Apply("handleReconnectPlayer", handleReconnectPlayer(game, playerId, playerSecret))

RestNext ==
  \/ HandleStartGame
  \/ HandleReconnectPlayer
  \/ HandleToggleDie
  \/ HandleRollDice
  \/ HandleBankScore

RestSpec == RestInit /\ [][RestNext]_vars

(***************************************************************************)
(* Vocabulary of the properties                                            *)
(***************************************************************************)
HasTurn(gameState) == gameState.phase = "in_progress" /\ gameState.turn # NullTurn

\* the player record with the given id (the id must be in the roster)
PlayerOf(gameState, playerId) ==
  gameState.players[playerIndexOf(gameState.players, playerId)]

TurnOwner(gameState) == PlayerOf(gameState, gameState.turn.playerId)

TotalsOf(gameState) ==
  [i \in DOMAIN gameState.players |->
     <<gameState.players[i].playerId, gameState.players[i].totalScore,
       gameState.players[i].hasEnteredGame>>]

Rolled == result'.op = "rollTurnDice"

Banked == result'.op = "bankTurnScore"

\* the step ended the current turn: a successful bank, or a roll that busted
TurnEnded ==
  /\ result'.success
  /\ \/ Banked
     \/ Rolled /\ result'.outcome = "bust"

\* the selection is valid, non-empty and covers every selectable die
CoversAllSelectable(turn) ==
  /\ turn.selection.isValid
  /\ Len(turn.selection.selectedIndices) > 0
  /\ SeqRange(turn.selection.selectedIndices) = SeqRange(selectableIndicesOf(turn.dice))

AllSixSelectable(turn) ==
  /\ Len(turn.dice) = NumDice
  /\ \A i \in DOMAIN turn.dice : turn.dice[i].selectable /\ turn.dice[i].value \in Faces

\* a turn that has just begun: blank dice, nothing accumulated
IsFreshTurn(turn) ==
  /\ turn.status = "awaiting_first_roll"
  /\ turn.accumulatedTurnScore = 0
  /\ turn.dice = blankDice(NumDice)
  /\ turn.selection = EmptySelection

(***************************************************************************)
(* C1 as stated: a roll with a valid selection covering every selectable   *)
(* die always succeeds with outcome hot_dice, six fresh selectable dice    *)
(* and the accumulated score kept, whatever the fresh dice show.           *)
(***************************************************************************)
C1_HotDiceStep ==
  /\ result'.success
  /\ result'.outcome = "hot_dice"
  /\ HasTurn(game')
  /\ game'.turn.playerId = game.turn.playerId
  /\ AllSixSelectable(game'.turn)
  /\ game'.turn.accumulatedTurnScore =
       game.turn.accumulatedTurnScore + game.turn.selection.selectionScore
  /\ game'.turn.accumulatedTurnScore > 0

PostSelectionBust ==
  /\ HasTurn(game)
  /\ game.turn.status # "awaiting_first_roll"
  /\ Rolled
  /\ result'.success
  /\ result'.outcome = "bust"

C6_AdvancesToNextPlayer ==
  /\ game'.phase = "in_progress"
  /\ game'.activeTurnIndex = (game.activeTurnIndex + 1) % Len(game.turnOrder)
  /\ game'.turn.playerId = game.turnOrder[game'.activeTurnIndex + 1]
  /\ IsFreshTurn(game'.turn)

C6_BustAlwaysAdvances ==
  [][PostSelectionBust => (TotalsOf(game') = TotalsOf(game) /\ C6_AdvancesToNextPlayer)]_vars

(***************************************************************************)
(* C6 (amended): whenever a roll after a selection busts, no total changes *)
(* and, unless the busting player was the last player pending in an active *)
(* final round, the active-turn index moves to the next player in turn     *)
(* order, wrapping to 0, where a fresh turn with accumulated score 0       *)
(* begins; when the busting player was the last pending player the game    *)
(* goes to phase finished with no turn.                                    *)
(***************************************************************************)
LastPending(gameState) ==
  /\ gameState.finalRound.active
  /\ FilterSeq(gameState.finalRound.remainingPlayerIds, gameState.turn.playerId) = <<>>

C6_BustAdvancesOrFinishes ==
  [][PostSelectionBust =>
       /\ TotalsOf(game') = TotalsOf(game)
       /\ IF LastPending(game)
          THEN game'.phase = "finished" /\ game'.turn = NullTurn
          ELSE C6_AdvancesToNextPlayer]_vars

\* a bust has passed the turn from the last player of three to the first
C6_Witness ==
  /\ result.op = "rollTurnDice"
  /\ result.outcome = "bust"
  /\ HasTurn(game)
  /\ Len(game.turnOrder) = 3
  /\ game.activeTurnIndex = 0
  /\ \E i \in DOMAIN game.players : game.players[i].totalScore > 0

C8_OwnerIsPending ==
  (game.phase = "in_progress" /\ game.finalRound.active) =>
    /\ game.turn # NullTurn
    /\ game.turn.playerId \in SeqRange(game.finalRound.remainingPlayerIds)
    /\ game.turn.playerId # game.finalRound.triggeringPlayerId
    /\ game.finalRound.triggeringPlayerId \notin SeqRange(game.finalRound.remainingPlayerIds)
    /\ Cardinality(SeqRange(game.finalRound.remainingPlayerIds))
         = Len(game.finalRound.remainingPlayerIds)

C8_FinalRoundStep ==
  /\ (game.phase = "in_progress" /\ game.finalRound.active) =>
       /\ game'.finalRound.active
       /\ game'.finalRound.triggeringPlayerId = game.finalRound.triggeringPlayerId
       /\ IF TurnEnded
          THEN /\ game'.finalRound.remainingPlayerIds =
                    FilterSeq(game.finalRound.remainingPlayerIds, game.turn.playerId)
               /\ (game'.phase = "finished") <=> (game'.finalRound.remainingPlayerIds = <<>>)
               /\ game'.phase = "in_progress" => IsFreshTurn(game'.turn)
          ELSE /\ game'.finalRound = game.finalRound
               /\ game'.phase = "in_progress"
               /\ game'.turn.playerId = game.turn.playerId
  /\ (game.phase # "finished" /\ game'.phase = "finished") =>
       /\ TurnEnded
       /\ game'.finalRound.active
       /\ game'.finalRound.remainingPlayerIds = <<>>

C9_Structure ==
  /\ Len(game.turnOrder) = Len(game.players)
  /\ SeqRange(game.turnOrder) \subseteq playerIdsOf(game.players)
  /\ game.phase # "in_progress" => game.turn = NullTurn

C10_StatusValues ==
  /\ game.turn # NullTurn =>
       game.turn.status \in {"awaiting_first_roll", "awaiting_selection", "awaiting_roll"}
  /\ game.turn # NullTurn => game.phase = "in_progress"

C10_StatusStep ==
  /\ (game.turn = NullTurn /\ game'.turn # NullTurn) => IsFreshTurn(game'.turn)
  /\ (game.turn # NullTurn /\ game'.turn # NullTurn) =>
       IF TurnEnded THEN IsFreshTurn(game'.turn)
       ELSE /\ game'.turn.playerId = game.turn.playerId
            /\ game.turn.status # "awaiting_first_roll" =>
                 game'.turn.status \in {"awaiting_selection", "awaiting_roll"}
            /\ (game.turn.status = "awaiting_first_roll"
                  /\ game'.turn.status # "awaiting_first_roll") =>
                 (Rolled /\ result'.success)

PhaseRank(phase) ==
  IF phase = "lobby" THEN 0 ELSE IF phase = "in_progress" THEN 1 ELSE 2

AnyPlayerIds == SeqRange(JoinSequence) \cup {NoPlayer}

AnyDieIndex == (0 - 1)..NumDice

C11_EveryOperationFails(gameState) ==
  /\ ~startGame(gameState).success
  /\ ~advanceToNextTurn(gameState).success
  /\ ~bankTurnScore(gameState).success
  /\ ~finishGame(gameState).success
  /\ \A dieIndex \in AnyDieIndex : ~toggleDieSelection(gameState, dieIndex).success
  /\ \A mockValues \in MockSequences : ~rollTurnDice(gameState, mockValues).success
  /\ \A id \in AnyPlayerIds :
       /\ ~addPlayer(gameState, createPlayerState(id)).success
       /\ ~removePlayer(gameState, id).success
  /\ \A m \in MinimumEntryInputs, t \in TargetScoreInputs :
       ~updateGameConfig(gameState, [minimumEntryScore |-> m, targetScore |-> t]).success

C11_FinishedIsClosed ==
  /\ game.phase \in {"lobby", "in_progress", "finished"}
  /\ game.phase = "finished" => (game.turn = NullTurn /\ C11_EveryOperationFails(game))

C11_PhaseStep ==
  /\ PhaseRank(game'.phase) >= PhaseRank(game.phase)
  /\ game.phase = "finished" => (game' = game /\ ~result'.success)

C11_PhaseOrder == [](C11_FinishedIsClosed) /\ [][C11_PhaseStep]_vars

\* a roll has been requested on a finished game and was refused
C11_Witness ==
  /\ game.phase = "finished"
  /\ result.op = "rollTurnDice"
  /\ ~result.success
  /\ result.error = "INVALID_PHASE"

(***************************************************************************)
(* C12: in every reachable turn state and for every selectable die index,  *)
(* toggling the die twice in a row succeeds both times, the first toggle   *)
(* changes the selected indices, and the second one gives back the exact   *)
(* prior selection (indices, validity, score) and status, with dice,       *)
(* accumulated score and best selectable score as they were.               *)
(***************************************************************************)
SelectableDieIndices(gameState) == SeqRange(selectableIndicesOf(gameState.turn.dice))

C12_ToggleTwice ==
  HasTurn(game) =>
    \A dieIndex \in SelectableDieIndices(game) :
      LET once == toggleDieSelection(game, dieIndex)
          twice == toggleDieSelection(once.gameState, dieIndex)
      IN /\ once.success
         /\ once.gameState.turn.selection.selectedIndices # game.turn.selection.selectedIndices
         /\ once.gameState.turn.dice = game.turn.dice
         /\ once.gameState.turn.accumulatedTurnScore = game.turn.accumulatedTurnScore
         /\ once.gameState.turn.bestSelectableScore = game.turn.bestSelectableScore
         /\ twice.success
         /\ twice.gameState.turn.selection = game.turn.selection
         /\ twice.gameState.turn.status = game.turn.status
         /\ twice.gameState = game

\* die 0 has been toggled out of the auto-selection and back in
C12_Witness ==
  /\ result.op = "toggleDieSelection"
  /\ result.success
  /\ HasTurn(game)
  /\ 0 \in SeqRange(game.turn.selection.selectedIndices)
  /\ game.turn.selection.selectedIndices = computeDefaultSelection(game.turn.dice).indices
  /\ Len(game.turn.selection.selectedIndices) < Len(selectableIndicesOf(game.turn.dice))

(***************************************************************************)
(* C13: toggleDieSelection on a die that is not selectable (locked or not  *)
(* yet revealed) or on an index outside 0..dice.length-1 fails, and a      *)
(* failed toggle changes nothing; so no toggle succeeds in status          *)
(* awaiting_first_roll, and no locked die is ever part of the selection.   *)
(***************************************************************************)
Toggled == result'.op = "toggleDieSelection"

C13_Rejects(gameState) ==
  /\ \A dieIndex \in ((0 - 2)..(NumDice + 1)) :
       (\/ dieIndex < 0
        \/ dieIndex >= Len(gameState.turn.dice)
        \/ ~gameState.turn.dice[dieIndex + 1].selectable)
         => ~toggleDieSelection(gameState, dieIndex).success
  /\ gameState.turn.status = "awaiting_first_roll" =>
       \A dieIndex \in ((0 - 2)..(NumDice + 1)) :
         ~toggleDieSelection(gameState, dieIndex).success

C13_SelectionIsSelectable ==
  HasTurn(game) =>
    /\ C13_Rejects(game)
    /\ \A k \in DOMAIN game.turn.selection.selectedIndices :
         LET index == game.turn.selection.selectedIndices[k]
         IN /\ index \in 0..(Len(game.turn.dice) - 1)
            /\ game.turn.dice[index + 1].selectable

C13_ToggleStep ==
  Toggled =>
    /\ ~result'.success => game' = game
    /\ result'.success =>
         /\ HasTurn(game)
         /\ game.turn.status # "awaiting_first_roll"
         /\ \A index \in SeqRange(game'.turn.selection.selectedIndices)
                           \ SeqRange(game.turn.selection.selectedIndices) :
              game.turn.dice[index + 1].selectable

C14_Recomputed(before, after) ==
  LET selection == after.selection
      scored == scoreDice(valuesAt(after.dice, selection.selectedIndices))
      old == SeqRange(before.selection.selectedIndices)
      new == SeqRange(selection.selectedIndices)
  IN /\ after.dice = before.dice
     /\ Cardinality((old \ new) \cup (new \ old)) = 1
     /\ selection.selectedIndices = SortIndices(new)
     /\ IF selection.selectedIndices = <<>>
        THEN ~selection.isValid /\ selection.selectionScore = 0
        ELSE /\ selection.isValid = scored.isValid
             /\ selection.selectionScore = (IF scored.isValid THEN scored.score ELSE 0)
     /\ after.status = (IF selection.isValid THEN "awaiting_roll" ELSE "awaiting_selection")

C14_ToggleRecomputes ==
  [][(Toggled /\ result'.success) => C14_Recomputed(game.turn, game'.turn)]_vars

\* the last selected die has been deselected
C14_Witness ==
  /\ result.op = "toggleDieSelection"
  /\ result.success
  /\ HasTurn(game)
  /\ game.turn.selection = EmptySelection
  /\ game.turn.status = "awaiting_selection"
  /\ game.turn.bestSelectableScore > 0

(***************************************************************************)
(* C15: past the first roll, rollTurnDice is accepted only with a valid    *)
(* non-empty selection: with an empty or invalid selection it fails with   *)
(* INVALID_SELECTION and changes nothing, and with a valid non-empty       *)
(* selection it succeeds.                                                  *)
(***************************************************************************)
C15_RollNeedsSelection ==
  [][(HasTurn(game) /\ game.turn.status # "awaiting_first_roll" /\ Rolled) =>
       IF ~game.turn.selection.isValid \/ game.turn.selection.selectedIndices = <<>>
       THEN /\ ~result'.success
            /\ result'.error = "INVALID_SELECTION"
            /\ game' = game
       ELSE result'.success]_vars

\* a roll with a non-empty invalid selection has been refused
C15_Witness ==
  /\ result.op = "rollTurnDice"
  /\ ~result.success
  /\ result.error = "INVALID_SELECTION"
  /\ HasTurn(game)
  /\ game.turn.selection.selectedIndices # <<>>
  /\ ~game.turn.selection.isValid
  /\ game.turn.accumulatedTurnScore > 0

(***************************************************************************)
(* C16: a roll that is not hot dice (valid non-empty selection that leaves *)
(* a selectable die unselected) succeeds; it busts exactly when the        *)
(* freshly rolled faces alone are a bust, whatever the locked dice show;   *)
(* when it does not bust the selection's score is added to the accumulated *)
(* score, selected dice keep their face and become non-selectable,         *)
(* unselected selectable dice show the fresh faces and stay selectable,    *)
(* dice locked earlier keep face and lock, and the number of dice is       *)
(* unchanged.                                                              *)
(***************************************************************************)
OrdinaryRollState(gameState) ==
  /\ HasTurn(gameState)
  /\ gameState.turn.status # "awaiting_first_roll"
  /\ gameState.turn.selection.isValid
  /\ gameState.turn.selection.selectedIndices # <<>>
  /\ SeqRange(gameState.turn.selection.selectedIndices)
       # SeqRange(selectableIndicesOf(gameState.turn.dice))

\* 0-based indices of the dice an ordinary roll throws again, in increasing order
RerolledIndices(turn) ==
  SortIndices(SeqRange(selectableIndicesOf(turn.dice)) \ SeqRange(turn.selection.selectedIndices))

C16_Frame(turn, after, mockValues) ==
  LET selected == SeqRange(turn.selection.selectedIndices)
      rerolled == RerolledIndices(turn)
  IN /\ after.accumulatedTurnScore = turn.accumulatedTurnScore + turn.selection.selectionScore
     /\ Len(after.dice) = Len(turn.dice)
     /\ \A i \in DOMAIN turn.dice :
          IF ~turn.dice[i].selectable THEN after.dice[i] = turn.dice[i]
          ELSE IF (i - 1) \in selected
          THEN after.dice[i].value = turn.dice[i].value /\ ~after.dice[i].selectable
          ELSE after.dice[i].selectable
     /\ \A k \in DOMAIN rerolled : after.dice[rerolled[k] + 1].value = mockValues[k]

C16_OrdinaryRoll ==
  OrdinaryRollState(game) =>
    \A mockValues \in TurnSequences :
      LET rolled == rollTurnDice(game, mockValues)
          fresh == [k \in 1..Len(RerolledIndices(game.turn)) |-> mockValues[k]]
      IN /\ rolled.success
         /\ rolled.outcome # "hot_dice"
         /\ (rolled.outcome = "bust") <=> isBust(fresh)
         /\ rolled.outcome = "bust" =>
              /\ TotalsOf(rolled.gameState) = TotalsOf(game)
              /\ rolled.gameState.turn = NullTurn \/ IsFreshTurn(rolled.gameState.turn)
         /\ rolled.outcome # "bust" =>
              /\ rolled.gameState.turn.playerId = game.turn.playerId
              /\ C16_Frame(game.turn, rolled.gameState.turn, mockValues)

\* an ordinary roll has left three or more dice locked, a scoring 1 or 5
\* among them, and at least one die to roll again
C16_Witness ==
  /\ result.op = "rollTurnDice"
  /\ result.success
  /\ result.outcome = "none"
  /\ HasTurn(game)
  /\ game.turn.accumulatedTurnScore > 0
  /\ Cardinality({ i \in DOMAIN game.turn.dice : ~game.turn.dice[i].selectable }) >= 3
  /\ \E i \in DOMAIN game.turn.dice :
       ~game.turn.dice[i].selectable /\ game.turn.dice[i].value \in {1, 5}
  /\ OrdinaryRollState(game)

(***************************************************************************)
(* C17: after every roll that does not end the turn (first, ordinary or    *)
(* hot-dice roll) the selection is the auto-selection: when the selectable *)
(* dice have a non-empty best-scoring subset, the selected dice are        *)
(* selectable dice showing exactly the faces of that subset, the selection *)
(* is valid with the subset's score and the status is awaiting_roll;       *)
(* otherwise the selection is empty and the status is awaiting_selection.  *)
(***************************************************************************)
C17_AutoSelected(turn) ==
  LET best == getBestScore(selectableValuesOf(turn.dice))
      selection == turn.selection
      chosen == valuesAt(turn.dice, selection.selectedIndices)
  IN /\ turn.bestSelectableScore = best.score
     /\ IF best.selection # <<>> /\ scoreDice(best.selection).isValid
        THEN /\ SeqRange(selection.selectedIndices)
                  \subseteq SeqRange(selectableIndicesOf(turn.dice))
             /\ selection.selectedIndices = SortIndices(SeqRange(selection.selectedIndices))
             /\ Len(chosen) = Len(best.selection)
             /\ \A face \in Faces : CountOf(chosen, face) = CountOf(best.selection, face)
             /\ selection.isValid
             /\ selection.selectionScore = best.score
             /\ turn.status = "awaiting_roll"
        ELSE /\ selection = EmptySelection
             /\ turn.status = "awaiting_selection"

C18_Started(before, after) ==
  /\ after.phase = "in_progress"
  /\ after.players = before.players
  /\ after.turnOrder = before.turnOrder
  /\ Len(after.turnOrder) = Len(before.players)
  /\ after.config = before.config
  /\ after.activeTurnIndex = 0
  /\ after.turn.playerId = after.turnOrder[1]
  /\ Len(after.turn.dice) = NumDice
  /\ \A i \in DOMAIN after.turn.dice :
       after.turn.dice[i].value = NoValue /\ ~after.turn.dice[i].selectable
  /\ after.turn.selection.selectedIndices = <<>>
  /\ after.turn.selection.selectionScore = 0
  /\ after.turn.accumulatedTurnScore = 0
  /\ after.turn.status = "awaiting_first_roll"
  /\ ~after.finalRound.active

C18_StartResult ==
  LET started == startGame(game)
  IN /\ started.success <=> (game.phase = "lobby" /\ Len(game.players) >= 1)
     /\ started.success => C18_Started(game, started.gameState)

C18_StartStep ==
  result'.op = "startGame" =>
    /\ result'.success <=> (game.phase = "lobby" /\ Len(game.players) >= 1)
    /\ result'.success => C18_Started(game, game')
    /\ ~result'.success => game' = game

FirstRollState(gameState) ==
  HasTurn(gameState) /\ gameState.turn.status = "awaiting_first_roll"

C19_BustDecision ==
  FirstRollState(game) =>
    /\ game.turn.selection.selectedIndices = <<>>
    /\ \A mockValues \in MockSequences :
         LET rolled == rollTurnDice(game, mockValues)
         IN /\ rolled.success
            /\ (rolled.outcome = "bust") <=> isBust(mockValues)
            /\ rolled.outcome # "bust" =>
                 \A i \in 1..NumDice :
                   rolled.gameState.turn.dice[i] = [value |-> mockValues[i], selectable |-> TRUE]

C19_FirstRollStep ==
  (FirstRollState(game) /\ Rolled) =>
    /\ result'.success
    /\ TotalsOf(game') = TotalsOf(game)
    /\ IF result'.outcome = "bust"
       THEN /\ game'.finalRound.active = game.finalRound.active
            /\ game'.finalRound.triggeringPlayerId = game.finalRound.triggeringPlayerId
            /\ game'.finalRound.remainingPlayerIds =
                 (IF game.finalRound.active
                  THEN FilterSeq(game.finalRound.remainingPlayerIds, game.turn.playerId)
                  ELSE game.finalRound.remainingPlayerIds)
            /\ IF LastPending(game)
               THEN game'.phase = "finished" /\ game'.turn = NullTurn
               ELSE C6_AdvancesToNextPlayer
       ELSE /\ result'.outcome = "none"
            /\ HasTurn(game')
            /\ game'.turn.playerId = game.turn.playerId
            /\ game'.activeTurnIndex = game.activeTurnIndex
            /\ AllSixSelectable(game'.turn)
            /\ ~isBust(selectableValuesOf(game'.turn.dice))
            /\ game'.turn.accumulatedTurnScore = 0
            /\ game'.turn.status \in {"awaiting_selection", "awaiting_roll"}
            /\ game'.finalRound = game.finalRound

RosterIds(gameState) == [i \in DOMAIN gameState.players |-> gameState.players[i].playerId]

Mirrors(gameState) ==
  /\ gameState.turnOrder = RosterIds(gameState)
  /\ Cardinality(SeqRange(gameState.turnOrder)) = Len(gameState.turnOrder)

C20_AddRemove(gameState) ==
  \A id \in SeqRange(JoinSequence) :
    LET added == addPlayer(gameState, createPlayerState(id))
        removed == removePlayer(gameState, id)
        known == id \in SeqRange(RosterIds(gameState))
    IN /\ added.success <=> ~known
       /\ known => added.error = "Player ID already exists"
       /\ added.success =>
            /\ added.gameState.players = Append(gameState.players, createPlayerState(id))
            /\ added.gameState.turnOrder = Append(gameState.turnOrder, id)
            /\ Mirrors(added.gameState)
       /\ removed.success <=> known
       /\ removed.success =>
            /\ RosterIds(removed.gameState) = FilterSeq(RosterIds(gameState), id)
            /\ \A i \in DOMAIN removed.gameState.players :
                 removed.gameState.players[i] = PlayerOf(gameState, RosterIds(removed.gameState)[i])
            /\ Mirrors(removed.gameState)

C20_LobbyMirror ==
  game.phase = "lobby" => (Mirrors(game) /\ C20_AddRemove(game))

C20_LobbyStep ==
  (result'.op \in {"addPlayer", "removePlayer"} /\ result'.success) =>
    /\ game.phase = "lobby"
    /\ game'.phase = "lobby"
    /\ Mirrors(game')
    /\ Len(game'.players) =
         Len(game.players) + (IF result'.op = "addPlayer" THEN 1 ELSE 0 - 1)

C20_RosterAndTurnOrder == [](C20_LobbyMirror) /\ [][C20_LobbyStep]_vars

\* a join with an id of the roster has been refused in a lobby of three
C20_Witness ==
  /\ result.op = "addPlayer"
  /\ ~result.success
  /\ result.error = "Player ID already exists"
  /\ game.phase = "lobby"
  /\ Len(game.players) = 3
  /\ Mirrors(game)

(***************************************************************************)
(* C21: outside phase lobby addPlayer, removePlayer and updateGameConfig   *)
(* fail, whatever their argument, and return no snapshot; so from the step *)
(* that starts the game on, the player ids, the turn order and the         *)
(* configuration stay what they were.                                      *)
(***************************************************************************)
ConfigInputs ==
  [minimumEntryScore : MinimumEntryInputs \cup {1}, targetScore : TargetScoreInputs \cup {1}]

C21_LobbyOnly(gameState) ==
  /\ \A id \in AnyPlayerIds :
       LET added == addPlayer(gameState, createPlayerState(id))
           removed == removePlayer(gameState, id)
       IN /\ ~added.success
          /\ added.gameState = NoGameState
          /\ added.error = "Cannot add players in phase"
          /\ ~removed.success
          /\ removed.gameState = NoGameState
          /\ removed.error = "Cannot remove players in phase"
  /\ \A configUpdates \in ConfigInputs :
       LET updated == updateGameConfig(gameState, configUpdates)
       IN /\ ~updated.success
          /\ updated.gameState = NoGameState
          /\ updated.error = "Cannot update config in phase"

C21_ClosedAfterLobby == game.phase # "lobby" => C21_LobbyOnly(game)

C21_RosterStep ==
  game'.phase # "lobby" =>
    /\ RosterIds(game') = RosterIds(game)
    /\ game'.turnOrder = game.turnOrder
    /\ game'.config = game.config

C21_RosterFrozen == [](C21_ClosedAfterLobby) /\ [][C21_RosterStep]_vars

\* a game of two players is under way, a total has changed, and a join with
\* an unused id, a removal of a player of the roster and a new configuration
\* are all refused
C21_Witness ==
  /\ game.phase = "in_progress"
  /\ Len(game.players) = 2
  /\ \E i \in DOMAIN game.players : game.players[i].totalScore > 0
  /\ JoinSequence[3] \notin playerIdsOf(game.players)
  /\ ~addPlayer(game, createPlayerState(JoinSequence[3])).success
  /\ ~removePlayer(game, game.players[1].playerId).success
  /\ ~updateGameConfig(game, [minimumEntryScore |-> 1, targetScore |-> 1]).success

(***************************************************************************)
(* C22: every engine operation is all-or-nothing.  A call that fails       *)
(* (wrong phase, die index out of range, locked die, invalid or empty      *)
(* selection, bank of zero, minimum entry not met, game already started or *)
(* finished) returns an error and no snapshot, and the game snapshot is    *)
(* what it was before the call; a call that succeeds returns a snapshot on *)
(* which the state invariants hold.                                        *)
(***************************************************************************)
\* the results of every engine operation on a snapshot, for every argument
EngineResults(gameState) ==
  {startGame(gameState), advanceToNextTurn(gameState), bankTurnScore(gameState),
   finishGame(gameState)}
  \cup { toggleDieSelection(gameState, dieIndex) : dieIndex \in AnyDieIndex }
  \cup { rollTurnDice(gameState, mockValues) : mockValues \in MockSequences }
  \cup { addPlayer(gameState, createPlayerState(id)) : id \in AnyPlayerIds }
  \cup { removePlayer(gameState, id) : id \in AnyPlayerIds }
  \cup { updateGameConfig(gameState, configUpdates) : configUpdates \in ConfigInputs }

C22_Illegal(gameState) ==
  /\ gameState.phase # "lobby" => ~startGame(gameState).success
  /\ gameState.phase = "finished" => ~finishGame(gameState).success
  /\ gameState.phase # "in_progress" =>
       /\ ~advanceToNextTurn(gameState).success
       /\ ~bankTurnScore(gameState).success
       /\ \A dieIndex \in AnyDieIndex : ~toggleDieSelection(gameState, dieIndex).success
       /\ \A mockValues \in MockSequences : ~rollTurnDice(gameState, mockValues).success
  /\ HasTurn(gameState) =>
       /\ \A dieIndex \in AnyDieIndex :
            (\/ dieIndex \notin 0..(Len(gameState.turn.dice) - 1)
             \/ ~gameState.turn.dice[dieIndex + 1].selectable)
              => ~toggleDieSelection(gameState, dieIndex).success
       /\ (gameState.turn.status # "awaiting_first_roll"
             /\ ~gameState.turn.selection.isValid) =>
            \A mockValues \in MockSequences : ~rollTurnDice(gameState, mockValues).success
       /\ bankAmount(gameState.turn) = 0 => ~bankTurnScore(gameState).success
       /\ (~TurnOwner(gameState).hasEnteredGame
             /\ bankAmount(gameState.turn) < gameState.config.minimumEntryScore) =>
            ~bankTurnScore(gameState).success

C22_NoPartialResult ==
  /\ C22_Illegal(game)
  /\ \A res \in EngineResults(game) :
       IF res.success
       THEN /\ res.error = "none"
            /\ res.gameState # NoGameState
            /\ validateStateInvariants(res.gameState)
       ELSE /\ res.error # "none"
            /\ res.gameState = NoGameState
            /\ res.outcome = "none"

C22_FailedStep == ~result'.success => (game' = game /\ result'.error # "none")

C22_AllOrNothing == [](C22_NoPartialResult) /\ [][C22_FailedStep]_vars

\* a roll has been refused for its invalid selection in a turn that holds an
\* accumulated score and revealed dice
C22_Witness ==
  /\ result.op = "rollTurnDice"
  /\ ~result.success
  /\ result.error = "INVALID_SELECTION"
  /\ HasTurn(game)
  /\ game.turn.accumulatedTurnScore > 0
  /\ AllSixSelectable(game.turn)
  /\ validateStateInvariants(game)

(***************************************************************************)
(* C23: a turn ending (successful bank, or roll that busts) that leaves    *)
(* the game in progress hands the turn to                                  *)
(* turnOrder[(activeTurnIndex + 1) mod N] with a fresh turn: six           *)
(* unrevealed dice, accumulated score 0, status awaiting_first_roll.  No   *)
(* other step changes the active index or the owner, the owner is always   *)
(* turnOrder[activeTurnIndex], so the owners follow the turn order         *)
(* cyclically, nobody is skipped, and with N > 1 nobody plays twice in a   *)
(* row.                                                                    *)
(***************************************************************************)
C23_OwnerIsActiveIndex ==
  HasTurn(game) =>
    /\ game.turn.playerId = game.turnOrder[game.activeTurnIndex + 1]
    /\ getActivePlayerId(game) = game.turn.playerId
    /\ LET advanced == advanceToNextTurn(game)
       IN /\ advanced.success
          /\ advanced.gameState.activeTurnIndex =
               (game.activeTurnIndex + 1) % Len(game.turnOrder)
          /\ advanced.gameState.turn =
               freshTurn(game.turnOrder[advanced.gameState.activeTurnIndex + 1])

C23_TurnStep ==
  (HasTurn(game) /\ game'.phase = "in_progress") =>
    IF TurnEnded
    THEN /\ game'.activeTurnIndex = (game.activeTurnIndex + 1) % Len(game.turnOrder)
         /\ game'.turn.playerId = game.turnOrder[game'.activeTurnIndex + 1]
         /\ game'.turn.dice = blankDice(NumDice)
         /\ IsFreshTurn(game'.turn)
         /\ Len(game.turnOrder) > 1 => game'.turn.playerId # game.turn.playerId
    ELSE /\ game'.activeTurnIndex = game.activeTurnIndex
         /\ game'.turn.playerId = game.turn.playerId

InvalidSelectionInPlay(turn) ==
  /\ Len(turn.selection.selectedIndices) > 0
  /\ ~turn.selection.isValid

C24_BankRejectsInvalidSelection ==
  [][(HasTurn(game) /\ InvalidSelectionInPlay(game.turn) /\ Banked) =>
       (~result'.success /\ result'.error = "INVALID_SELECTION")]_vars

(***************************************************************************)
(* C25: through handleToggleDie, handleRollDice and handleBankScore only   *)
(* the active player changes the game: a request succeeds only when the    *)
(* game is in progress and it carries the id and the secret of the owner   *)
(* of the current turn.  A request that carries both credentials but not   *)
(* the owner's is rejected with INVALID_PHASE (game not in progress),      *)
(* INVALID_SECRET (unknown id, or secret of somebody else) or              *)
(* NOT_YOUR_TURN (a player who does not own the turn), one lacking a       *)
(* credential with INVALID_CREDENTIALS, and a rejected request leaves the  *)
(* game as it was.                                                         *)
(***************************************************************************)
OwnersRequest(gameState, playerId, playerSecret) ==
  /\ HasTurn(gameState)
  /\ playerId = gameState.turn.playerId
  /\ playerSecret = TurnOwner(gameState).playerSecret

\* the code a request of somebody who is not the owner is answered with
C25_Denial(gameState, playerId, playerSecret) ==
  IF playerId = NoCredential \/ playerSecret = NoCredential THEN "INVALID_CREDENTIALS"
  ELSE IF gameState.phase # "in_progress" THEN "INVALID_PHASE"
  ELSE IF \E i \in DOMAIN gameState.players :
            /\ gameState.players[i].playerId = playerId
            /\ gameState.players[i].playerSecret = playerSecret
       THEN "NOT_YOUR_TURN"
       ELSE "INVALID_SECRET"

HandlerResults(gameState, playerId, playerSecret) ==
  {handleBankScore(gameState, playerId, playerSecret)}
  \cup { handleToggleDie(gameState, playerId, playerSecret, dieIndex) : dieIndex \in AnyDieIndex }
  \cup { handleRollDice(gameState, playerId, playerSecret, mockValues) :
           mockValues \in MockSequences }

C25_OnlyOwnerActs ==
  \A playerId \in RequestIds, playerSecret \in RequestSecrets :
    \A res \in HandlerResults(game, playerId, playerSecret) :
      IF OwnersRequest(game, playerId, playerSecret)
      THEN res.error \in {"none", "INVALID_INDEX", "TOGGLE_FAILED", "ROLL_FAILED", "BANK_FAILED"}
      ELSE /\ ~res.success
           /\ res.gameState = NoGameState
           /\ res.error = C25_Denial(game, playerId, playerSecret)

HandledTurnRequest == result'.op \in {"handleToggleDie", "handleRollDice", "handleBankScore"}

C25_RequestStep ==
  HandledTurnRequest =>
    /\ game' # game => (HasTurn(game) /\ result'.success)
    /\ ~result'.success => game' = game

C25_ActivePlayerOnly == [](C25_OnlyOwnerActs) /\ [][C25_RequestStep]_vars

\* in the middle of a game a roll requested by a player with valid
\* credentials who does not own the turn has been rejected
C25_Witness ==
  /\ result.op = "handleRollDice"
  /\ ~result.success
  /\ result.error = "NOT_YOUR_TURN"
  /\ HasTurn(game)
  /\ game.turn.status # "awaiting_first_roll"
  /\ \E i \in DOMAIN game.players : game.players[i].totalScore > 0

(***************************************************************************)
(* C26: for every list of 1 to 6 die faces, if some die of the list is not *)
(* consumed by a scoring pattern (the list as a straight, three pairs or   *)
(* two triplets; its face three or more times in the list; a 1 or a 5),    *)
(* scoreDice returns score 0 and invalid, never the score of the scoring   *)
(* dice; when every die is consumed it returns valid with a positive       *)
(* score.                                                                  *)
(***************************************************************************)
WholesalePattern(values) ==
  /\ Len(values) = NumDice
  /\ \/ \A face \in Faces : CountOf(values, face) = 1
     \/ \A face \in Faces : CountOf(values, face) \in {0, 2, 4}
     \/ \A face \in Faces : CountOf(values, face) \in {0, 3}

\* the die at position i takes part in no scoring pattern
Unconsumed(values, i) ==
  /\ ~WholesalePattern(values)
  /\ values[i] \notin {1, 5}
  /\ CountOf(values, values[i]) < 3

Scored == result.op = "scoreDice"

C26_NoPartialScore ==
  (Scored /\ Len(game) >= 1) =>
    IF \E i \in DOMAIN game : Unconsumed(game, i)
    THEN result.score = 0 /\ ~result.isValid
    ELSE result.score > 0 /\ result.isValid

\* three 1s and a 5 with a stray 2 have been scored
C26_Witness ==
  /\ Scored
  /\ game = <<1, 1, 1, 5, 2>>
  /\ result.score = 0
  /\ ~result.isValid

(***************************************************************************)
(* C27: for every roll of 0 to 6 dice, isBust is true exactly when the     *)
(* roll holds no 1, no 5, no face three or more times, no 1-6 straight and *)
(* no three pairs; and exactly when no non-empty sub-multiset of the roll  *)
(* is a valid selection for scoreDice.  The empty roll is a bust.          *)
(***************************************************************************)
\* the faces at the positions of the set picked, in the roll's order
SubRoll(values, picked) ==
  LET positions == SortIndices(picked)
  IN [k \in DOMAIN positions |-> values[positions[k]]]

NothingScores(values) ==
  /\ \A i \in DOMAIN values : values[i] \notin {1, 5}
  /\ \A face \in Faces : CountOf(values, face) < 3
  /\ ~(Len(values) = NumDice /\ \A face \in Faces : CountOf(values, face) = 1)
  /\ ~(Len(values) = NumDice /\ \A face \in Faces : CountOf(values, face) \in {0, 2, 4})

BustChecked == result.op = "isBust"

C27_BustIffNothingScores ==
  BustChecked =>
    /\ result.bust <=> NothingScores(game)
    /\ result.bust <=>
         \A picked \in (SUBSET DOMAIN game) \ {{}} : ~scoreDice(SubRoll(game, picked)).isValid
    /\ game = <<>> => result.bust

\* a roll of six dice with two pairs and no scoring face has been found a bust
C27_Witness ==
  /\ BustChecked
  /\ game = <<2, 3, 4, 6, 2, 3>>
  /\ result.bust

(***************************************************************************)
(* C28: for every list of faces, getBestScore returns chosen values that   *)
(* are a sub-multiset of the list and a valid selection whose score is     *)
(* scoreDice of the chosen values; when the whole list is a valid          *)
(* selection the chosen values are the whole list; the chosen values are   *)
(* non-empty exactly when the list is not a bust.  computeDefaultSelection *)
(* finds selectable dice showing exactly the chosen values.                *)
(***************************************************************************)
BestChosen == result.op = "getBestScore"

SameFaces(values, others) ==
  \A face \in Faces : CountOf(values, face) = CountOf(others, face)

\* the list as six or fewer freshly rolled, selectable dice
AsSelectableDice(values) == [i \in DOMAIN values |-> [value |-> values[i], selectable |-> TRUE]]

C28_DefaultSelection(values, chosen, score) ==
  LET dice == AsSelectableDice(values)
      def == computeDefaultSelection(dice)
  IN IF chosen = <<>> THEN def = InvalidDefault
     ELSE /\ def.evaluation = [isValid |-> TRUE, selectionScore |-> score]
          /\ SameFaces(valuesAt(dice, def.indices), chosen)
          /\ Len(def.indices) = Len(chosen)

C28_BestSubset ==
  BestChosen =>
    /\ \A face \in Faces : CountOf(result.selection, face) <= CountOf(game, face)
    /\ scoreDice(result.selection).isValid
    /\ result.score = scoreDice(result.selection).score
    /\ scoreDice(game).isValid => result.selection = game
    /\ (result.selection # <<>>) <=> ~isBust(game)
    /\ C28_DefaultSelection(game, result.selection, result.score)

\* three 1s and two 5s have been chosen out of a roll with a stray 2
C28_Witness ==
  /\ BestChosen
  /\ game = <<1, 1, 1, 5, 5, 2>>
  /\ result.score = 1100
  /\ SameFaces(result.selection, <<1, 1, 1, 5, 5>>)

(***************************************************************************)
(* C29 as stated: in a selection that is not a straight, three pairs or    *)
(* two triplets, a face with count n >= 3 scores base x multiplier, with   *)
(* base 1000 for face 1 and face x 100 for faces 2 to 6 and multiplier 1,  *)
(* 2, 3, 4 for n = 3, 4, 5, 6 (four 3s = 600, five 5s = 1500); 1s and 5s   *)
(* outside such a group score 100 and 50 each.                             *)
(***************************************************************************)
BaseTimesMultiplier(face, n) == (IF face = 1 THEN 1000 ELSE face * 100) * (n - 2)

RECURSIVE SumBaseTimesMultiplier(_, _)
SumBaseTimesMultiplier(values, face) ==
  IF face > NumFaces THEN 0
  ELSE (IF CountOf(values, face) >= 3
        THEN BaseTimesMultiplier(face, CountOf(values, face)) ELSE 0)
       + SumBaseTimesMultiplier(values, face + 1)

C29_BaseTimesMultiplier ==
  (Scored /\ result.isValid /\ ~WholesalePattern(game)) =>
    result.score = SumBaseTimesMultiplier(game, 1) + singlesScore(game)

(***************************************************************************)
(* C30: a player's totalScore and hasEnteredGame change only in a          *)
(* successful bankTurnScore while that player owns the turn.  A roll       *)
(* (bust and hot dice included), a toggle, advanceToNextTurn, finishGame   *)
(* and updatePlayerConnection leave every player's totalScore and          *)
(* hasEnteredGame as they were, and a successful bank leaves the records   *)
(* of all players but the owner as they were.                              *)
(***************************************************************************)
SameTotals(after, before) == TotalsOf(after) = TotalsOf(before)

C30_OtherOperations(gameState) ==
  /\ \A res \in {advanceToNextTurn(gameState), finishGame(gameState)}
                  \cup { toggleDieSelection(gameState, dieIndex) : dieIndex \in AnyDieIndex }
                  \cup { rollTurnDice(gameState, mockValues) : mockValues \in MockSequences }
                  \cup { updatePlayerConnection(gameState, id, connected) :
                           id \in AnyPlayerIds, connected \in BOOLEAN } :
       res.success => SameTotals(res.gameState, gameState)
  /\ \A id \in playerIdsOf(gameState.players), connected \in BOOLEAN :
       LET updated == updatePlayerConnection(gameState, id, connected)
       IN /\ updated.success
          /\ PlayerOf(updated.gameState, id).connected = connected
          /\ updated.gameState.turn = gameState.turn
          /\ updated.gameState.phase = gameState.phase

C30_TotalsFrame == C30_OtherOperations(game)

C30_TotalsStep ==
  /\ Len(game'.players) = Len(game.players) =>
       \A i \in DOMAIN game.players :
         game'.players[i] # game.players[i] =>
           /\ Banked
           /\ result'.success
           /\ HasTurn(game)
           /\ game.players[i].playerId = game.turn.playerId
           /\ game'.players[i].totalScore > game.players[i].totalScore
  /\ ~(Banked /\ result'.success) => (game.phase # "lobby" => SameTotals(game', game))

C30_OnlyBankChangesTotals == [](C30_TotalsFrame) /\ [][C30_TotalsStep]_vars

\* a bust has ended a turn with an accumulated score while two players hold
\* banked totals
C30_Witness ==
  /\ result.op = "rollTurnDice"
  /\ result.success
  /\ result.outcome = "bust"
  /\ HasTurn(game)
  /\ Cardinality({ i \in DOMAIN game.players :
                     game.players[i].totalScore > 0 /\ game.players[i].hasEnteredGame }) >= 2

(***************************************************************************)
(* C31: in every reachable state with phase in_progress a turn exists and  *)
(* its playerId is turnOrder[activeTurnIndex], so the two active-player    *)
(* queries agree there: for every player id p, known or not,               *)
(* isActivePlayer(game, p) is true exactly when getActivePlayerId(game) is *)
(* p; and for every id of a player the two queries agree in every phase.   *)
(***************************************************************************)
C31_ActiveQueriesAgree ==
  /\ game.phase = "in_progress" =>
       /\ game.turn # NullTurn
       /\ game.activeTurnIndex \in 0..(Len(game.turnOrder) - 1)
       /\ game.turn.playerId = game.turnOrder[game.activeTurnIndex + 1]
       /\ validateStateInvariants(game)
       /\ \A p \in AnyPlayerIds :
            isActivePlayer(game, p) <=> (getActivePlayerId(game) = p)
  /\ \A p \in playerIdsOf(game.players) :
       isActivePlayer(game, p) <=> (getActivePlayerId(game) = p)

\* the turn has passed to the last of three players
C31_Witness ==
  /\ game.phase = "in_progress"
  /\ Len(game.turnOrder) = 3
  /\ game.activeTurnIndex = 2
  /\ isActivePlayer(game, game.turnOrder[3])
  /\ getActivePlayerId(game) = JoinSequence[3]
  /\ result.op \in {"bankTurnScore", "rollTurnDice"}

(***************************************************************************)
(* C32: in every reachable turn the dice list has exactly 6 dice; the      *)
(* selected indices are distinct, in increasing order and refer only to    *)
(* selectable dice; once the first roll has happened every die, selectable *)
(* or locked, shows a face 1-6; and before the first roll all six dice are *)
(* unrevealed and non-selectable.                                          *)
(***************************************************************************)
StrictlyIncreasing(indices) ==
  \A i \in DOMAIN indices : \A j \in DOMAIN indices : i < j => indices[i] < indices[j]

NonEmptyValid(selection) == selection.isValid /\ Len(selection.selectedIndices) > 0

C33_StatusMatchesSelection ==
  (HasTurn(game) /\ game.turn.status # "awaiting_first_roll") =>
    LET turn == game.turn
    IN /\ turn.status \in {"awaiting_roll", "awaiting_selection"}
       /\ (turn.status = "awaiting_roll") <=> NonEmptyValid(turn.selection)
       /\ (turn.status = "awaiting_selection") <=> ~NonEmptyValid(turn.selection)
       /\ turn.status = "awaiting_roll" => turn.selection.selectionScore > 0
       /\ turn.status = "awaiting_selection" => turn.selection.selectionScore = 0
       /\ turn.selection.isValid =
            evaluateSelection(turn.dice, turn.selection.selectedIndices).isValid
       /\ \A mockValues \in TurnSequences :
            (rollTurnDice(game, mockValues).error = "INVALID_SELECTION")
              <=> (turn.status = "awaiting_selection")

\* dice are selected but do not all score: the status asks for a selection
C33_Witness ==
  /\ HasTurn(game)
  /\ result.op = "toggleDieSelection"
  /\ result.success
  /\ game.turn.status = "awaiting_selection"
  /\ Len(game.turn.selection.selectedIndices) > 0
  /\ ~game.turn.selection.isValid
  /\ \A mockValues \in TurnSequences : ~rollTurnDice(game, mockValues).success

(***************************************************************************)
(* C34: immediately after every roll that does not bust the auto-selection *)
(* is non-empty and valid, status is awaiting_roll, and                    *)
(* bestSelectableScore equals the auto-selection's selectionScore and is   *)
(* greater than 0; status awaiting_selection is only ever entered by a     *)
(* successful toggleDieSelection; and past the first roll of a turn        *)
(* bestSelectableScore stays positive, so bankTurnScore never fails with   *)
(* BANK_ZERO.                                                              *)
(***************************************************************************)
C34_AfterRoll(turn) ==
  /\ NonEmptyValid(turn.selection)
  /\ turn.status = "awaiting_roll"
  /\ turn.bestSelectableScore = turn.selection.selectionScore
  /\ turn.bestSelectableScore > 0
  /\ ~isBust(selectableValuesOf(turn.dice))

C34_RollStep ==
  /\ (Rolled /\ result'.success /\ result'.outcome # "bust") =>
       (HasTurn(game') /\ C34_AfterRoll(game'.turn))
  /\ (game'.turn.status = "awaiting_selection" /\ game.turn.status # "awaiting_selection") =>
       /\ result'.op = "toggleDieSelection"
       /\ result'.success
       /\ game.turn.status = "awaiting_roll"

C34_NeverBankZero ==
  (HasTurn(game) /\ game.turn.status # "awaiting_first_roll") =>
    /\ game.turn.bestSelectableScore > 0
    /\ bankAmount(game.turn) > 0
    /\ bankTurnScore(game).error # "BANK_ZERO"

RECURSIVE ToggleEach(_, _)
ToggleEach(gameState, indices) ==
  IF indices = <<>> THEN [ok |-> TRUE, gameState |-> gameState]
  ELSE LET toggled == toggleDieSelection(gameState, Head(indices))
       IN IF toggled.success THEN ToggleEach(toggled.gameState, Tail(indices))
          ELSE [ok |-> FALSE, gameState |-> gameState]

\* the dice in which the selection differs from the default selection
TogglesToDefault(turn) ==
  LET selected == SeqRange(turn.selection.selectedIndices)
      default == SeqRange(computeDefaultSelection(turn.dice).indices)
  IN SortIndices((selected \ default) \cup (default \ selected))

RollSucceeds(gameState) ==
  \A mockValues \in TurnSequences : rollTurnDice(gameState, mockValues).success

C35_NeverStuck ==
  game.phase = "in_progress" =>
    /\ HasTurn(game)
    /\ game.turn.status \in {"awaiting_first_roll", "awaiting_roll", "awaiting_selection"}
    /\ game.turn.status \in {"awaiting_first_roll", "awaiting_roll"} => RollSucceeds(game)
    /\ game.turn.status = "awaiting_selection" =>
         LET path == ToggleEach(game, TogglesToDefault(game.turn))
         IN /\ ~RollSucceeds(game)
            /\ Len(TogglesToDefault(game.turn)) \in 1..NumDice
            /\ path.ok
            /\ path.gameState.turn.status = "awaiting_roll"
            /\ RollSucceeds(path.gameState)

\* the selection has been emptied and a non-scoring die selected: no roll
\* is possible now, and two or more toggles are needed before one is
C35_Witness ==
  /\ HasTurn(game)
  /\ game.turn.status = "awaiting_selection"
  /\ Len(game.turn.selection.selectedIndices) > 0
  /\ Len(TogglesToDefault(game.turn)) >= 2
  /\ ~RollSucceeds(game)
  /\ RollSucceeds(ToggleEach(game, TogglesToDefault(game.turn)).gameState)

(***************************************************************************)
(* C36: final-round bookkeeping is monotonic: once finalRound.active is    *)
(* true it stays true and triggeringPlayerId never changes; the pending    *)
(* list only ever loses players, never gains one and never contains the    *)
(* triggering player; and while the game is in_progress with an active     *)
(* final round the owner of the current turn is a member of the pending    *)
(* list.  The final round becomes active only by a successful bank, with   *)
(* the banking player as triggering player.                                *)
(***************************************************************************)
RECURSIVE IsSubsequence(_, _)
IsSubsequence(short, long) ==
  IF short = <<>> THEN TRUE
  ELSE IF long = <<>> THEN FALSE
  ELSE IF Head(short) = Head(long) THEN IsSubsequence(Tail(short), Tail(long))
  ELSE IsSubsequence(short, Tail(long))

C36_Pending ==
  IF game.finalRound.active
  THEN /\ game.finalRound.triggeringPlayerId \in playerIdsOf(game.players)
       /\ game.finalRound.triggeringPlayerId \notin SeqRange(game.finalRound.remainingPlayerIds)
       /\ IsSubsequence(game.finalRound.remainingPlayerIds, game.turnOrder)
       /\ game.phase # "lobby"
       /\ game.phase = "in_progress" =>
            /\ game.turn # NullTurn
            /\ game.turn.playerId \in SeqRange(game.finalRound.remainingPlayerIds)
  ELSE game.finalRound = defaultFinalRoundState

C36_MonotonicStep ==
  /\ game.finalRound.active =>
       /\ game'.finalRound.active
       /\ game'.finalRound.triggeringPlayerId = game.finalRound.triggeringPlayerId
       /\ IsSubsequence(game'.finalRound.remainingPlayerIds, game.finalRound.remainingPlayerIds)
       /\ game'.finalRound.remainingPlayerIds # game.finalRound.remainingPlayerIds =>
            /\ TurnEnded
            /\ Len(game'.finalRound.remainingPlayerIds)
                 = Len(game.finalRound.remainingPlayerIds) - 1
  /\ (~game.finalRound.active /\ game'.finalRound.active) =>
       /\ Banked
       /\ result'.success
       /\ game'.finalRound.triggeringPlayerId = game.turn.playerId

C36_FinalRoundMonotonic == [](C36_Pending) /\ [][C36_MonotonicStep]_vars

\* in a final round of three players one pending player has had their turn
\* and ended it with a total at or above the target
C36_Witness ==
  /\ game.phase = "in_progress"
  /\ game.finalRound.active
  /\ Len(game.turnOrder) = 3
  /\ Len(game.finalRound.remainingPlayerIds) = 1
  /\ \E i \in DOMAIN game.players :
       /\ game.players[i].playerId # game.finalRound.triggeringPlayerId
       /\ game.players[i].totalScore >= game.config.targetScore

(***************************************************************************)
(* C37: each roll past the first roll of a turn that is neither hot dice   *)
(* nor a bust lowers the number of selectable dice by the size of the      *)
(* selection, which is at least 1, and leaves at least 1 selectable die;   *)
(* the number of locked dice is 0 after a first roll or a hot-dice roll,   *)
(* grows by at least 1 with every such roll and never exceeds 5, so at     *)
(* most 5 of them follow one another without a hot-dice roll or the end of *)
(* the turn; and every roll past the first that does not bust raises the   *)
(* accumulated turn score by the selection score, a positive amount.       *)
(***************************************************************************)
NumSelectable(turn) == Len(selectableIndicesOf(turn.dice))

NumLocked(turn) == Len(turn.dice) - NumSelectable(turn)

LaterRoll ==
  /\ HasTurn(game)
  /\ game.turn.status # "awaiting_first_roll"
  /\ Rolled
  /\ result'.success
  /\ result'.outcome # "bust"

C37_LockedRange ==
  (HasTurn(game) /\ game.turn.status # "awaiting_first_roll") =>
    /\ NumSelectable(game.turn) \in 1..NumDice
    /\ NumLocked(game.turn) \in 0..(NumDice - 1)

C37_RollStep ==
  /\ (LaterRoll /\ result'.outcome = "none") =>
       /\ Len(game.turn.selection.selectedIndices) >= 1
       /\ NumSelectable(game'.turn) =
            NumSelectable(game.turn) - Len(game.turn.selection.selectedIndices)
       /\ NumSelectable(game'.turn) < NumSelectable(game.turn)
       /\ NumSelectable(game'.turn) >= 1
       /\ NumLocked(game'.turn) >= NumLocked(game.turn) + 1
       /\ NumLocked(game'.turn) <= NumDice - 1
  /\ (LaterRoll /\ result'.outcome = "hot_dice") => NumLocked(game'.turn) = 0
  /\ (HasTurn(game) /\ game.turn.status = "awaiting_first_roll" /\ Rolled
        /\ result'.success /\ result'.outcome # "bust") => NumLocked(game'.turn) = 0
  /\ LaterRoll =>
       /\ game'.turn.playerId = game.turn.playerId
       /\ game.turn.selection.selectionScore > 0
       /\ game'.turn.accumulatedTurnScore =
            game.turn.accumulatedTurnScore + game.turn.selection.selectionScore
       /\ game'.turn.accumulatedTurnScore > game.turn.accumulatedTurnScore

StoredAfter(gameState, handled) ==
  IF handled.success THEN handled.gameState ELSE gameState

\* the results of the owner's requests that end the owner's turn
TurnEndingRequests(gameState, playerId, playerSecret) ==
  { handled \in { handleRollDice(gameState, playerId, playerSecret, mockValues) :
                    mockValues \in MockSequences } :
      handled.success /\ handled.outcome = "bust" }
  \cup { handled \in {handleBankScore(gameState, playerId, playerSecret)} : handled.success }

RollOrBankRequests(gameState, playerId, playerSecret) ==
  { handleRollDice(gameState, playerId, playerSecret, mockValues) :
      mockValues \in MockSequences }
  \cup {handleBankScore(gameState, playerId, playerSecret)}

C38_SecondRequestRejected ==
  (HasTurn(game) /\ Len(game.players) >= 2) =>
    LET playerId == game.turn.playerId
        playerSecret == TurnOwner(game).playerSecret
    IN \A first \in TurnEndingRequests(game, playerId, playerSecret) :
         LET stored == StoredAfter(game, first)
         IN /\ stored.phase \in {"in_progress", "finished"}
            /\ stored.phase = "in_progress" =>
                 /\ stored.turn.playerId # playerId
                 /\ IsFreshTurn(stored.turn)
            /\ \A second \in RollOrBankRequests(stored, playerId, playerSecret) :
                 /\ ~second.success
                 /\ second.error = IF stored.phase = "finished"
                                   THEN "INVALID_PHASE" ELSE "NOT_YOUR_TURN"
                 /\ StoredAfter(stored, second) = stored
                 /\ TotalsOf(StoredAfter(stored, second)) = TotalsOf(stored)

C38_RejectedStep ==
  (result'.op \in {"handleRollDice", "handleBankScore"} /\ ~result'.success) =>
    /\ game' = game
    /\ result'.error \in {"INVALID_CREDENTIALS", "INVALID_PHASE", "INVALID_SECRET",
                          "NOT_YOUR_TURN", "ROLL_FAILED", "BANK_FAILED"}

C38_OneSnapshot == [](C38_SecondRequestRejected) /\ [][C38_RejectedStep]_vars

\* after a bank has passed the turn on, a request has been rejected as not
\* the player's turn and the next player's turn is still fresh
C38_Witness ==
  /\ HasTurn(game)
  /\ result.op \in {"handleRollDice", "handleBankScore"}
  /\ result.error = "NOT_YOUR_TURN"
  /\ IsFreshTurn(game.turn)
  /\ \E i \in DOMAIN game.players :
       /\ game.players[i].playerId # game.turn.playerId
       /\ game.players[i].totalScore > 0

(***************************************************************************)
(* C39 as stated: in every reachable in-progress state, for the turn owner *)
(* p, canPlayerBank(game, p) is true exactly when bankTurnScore(game)      *)
(* would succeed.                                                          *)
(***************************************************************************)
C39_CanBankAgrees ==
  HasTurn(game) =>
    (canPlayerBank(game, game.turn.playerId) <=> bankTurnScore(game).success)

====
